---- MODULE Spec2Model ----
(***************************************************************************)
(* struct-to-pflags: a generator of pflag registration/loading code from a *)
(* Go struct, its validator and its recursive validator.                   *)
(*                                                                         *)
(* Go strings are modelled as sequences of atoms.  An atom is a single     *)
(* character wherever the program inspects characters (identifiers, type   *)
(* tags, struct tags, file contents under normalizeCode); the fixed        *)
(* boilerplate the renderer writes is kept as multi-character atoms that   *)
(* neither start nor end with white space.  White space is always an atom  *)
(* of its own: SP, TAB, CR, LF.                                            *)
(***************************************************************************)
EXTENDS Integers, Sequences, FiniteSets, TLC

VARIABLES
    node,          \* the parsed source file (ast.File) at cfg.filePath
    pkgDirs,       \* import path -> parsed package directory, as `go list` and parser.ParseDir see it
    cfg,           \* the generatorConfig of the run
    outputFile,    \* contents of the file at cfg.outputFile (NoFile when it does not exist)
    expectedCode,  \* the text returned by the latest generateCode call
    result,        \* outcome of the latest handler
    hist,          \* history of earlier outcomes, kept for the properties
    rec,           \* validateRecursive: the tree, the loop position, the failed list, the exit code
    probe          \* the extractor called last with its result, or the count of edits made

vars == <<node, pkgDirs, cfg, outputFile, expectedCode, result, hist, rec, probe>>

----------------------------------------------------------------------------
(* Characters and the strings/unicode functions the program calls.         *)

SP  == " "
TAB == "TAB"
CR  == "CR"
LF  == "LF"
QUOTE == "\""

UpperChars == <<"A","B","C","D","E","F","G","H","I","J","K","L","M",
                "N","O","P","Q","R","S","T","U","V","W","X","Y","Z">>
LowerChars == <<"a","b","c","d","e","f","g","h","i","j","k","l","m",
                "n","o","p","q","r","s","t","u","v","w","x","y","z">>
DigitChars == <<"0","1","2","3","4","5","6","7","8","9">>

UpperSet == { UpperChars[i] : i \in 1..Len(UpperChars) }
LowerSet == { LowerChars[i] : i \in 1..Len(LowerChars) }
DigitSet == { DigitChars[i] : i \in 1..Len(DigitChars) }

\* unicode.IsUpper, unicode.ToLower and unicode.ToUpper on ASCII.
LowerOf == [c \in UpperSet |-> LowerChars[CHOOSE i \in 1..Len(UpperChars) : UpperChars[i] = c]]
UpperOf == [c \in LowerSet |-> UpperChars[CHOOSE i \in 1..Len(LowerChars) : LowerChars[i] = c]]

IsUpper(c) == c \in UpperSet
IsLower(c) == c \in LowerSet
IsDigit(c) == c \in DigitSet
ToLower(c) == IF c \in UpperSet THEN LowerOf[c] ELSE c
ToUpper(c) == IF c \in LowerSet THEN UpperOf[c] ELSE c

\* strings.isSeparator on ASCII: letters, digits and underscore are not separators.
isSeparator(c) == ~(IsUpper(c) \/ IsLower(c) \/ IsDigit(c) \/ c = "_")

\* strings.Title: the first letter of every word is mapped to title case.
RECURSIVE TitleFrom(_, _)
TitleFrom(s, i) ==
    IF i > Len(s) THEN <<>>
    ELSE <<IF isSeparator(IF i = 1 THEN SP ELSE s[i-1]) THEN ToUpper(s[i]) ELSE s[i]>>
         \o TitleFrom(s, i + 1)

Title(s) == TitleFrom(s, 1)

HasPrefix(s, p) == Len(s) >= Len(p) /\ SubSeq(s, 1, Len(p)) = p
HasSuffix(s, p) == Len(s) >= Len(p) /\ SubSeq(s, Len(s) - Len(p) + 1, Len(s)) = p
TrimPrefix(s, p) == IF HasPrefix(s, p) THEN SubSeq(s, Len(p) + 1, Len(s)) ELSE s
TrimSuffix(s, p) == IF HasSuffix(s, p) THEN SubSeq(s, 1, Len(s) - Len(p)) ELSE s

\* strings.Contains: sub occurs as a contiguous run of s.
Contains(s, sub) ==
    \/ sub = <<>>
    \/ \E i \in 1..(Len(s) - Len(sub) + 1) :
          s[i] = sub[1] /\ SubSeq(s, i, i + Len(sub) - 1) = sub

\* The positions of s, in order, at which test holds.
Positions(s, test(_)) == SelectSeq([i \in 1..Len(s) |-> i], test)

\* strings.TrimRight(s, cutset) and strings.TrimLeft(s, cutset).
RECURSIVE TrimRight(_, _)
TrimRight(s, cutset) ==
    IF s # <<>> /\ s[Len(s)] \in cutset THEN TrimRight(SubSeq(s, 1, Len(s) - 1), cutset) ELSE s

RECURSIVE TrimLeft(_, _)
TrimLeft(s, cutset) ==
    IF s # <<>> /\ s[1] \in cutset THEN TrimLeft(Tail(s), cutset) ELSE s

\* strings.Trim(s, cutset) and strings.TrimSpace(s).
Trim(s, cutset) == TrimLeft(TrimRight(s, cutset), cutset)
TrimSpace(s) == Trim(s, {SP, TAB, CR, LF})

\* strings.Split(s, sep), sep non-empty: the pieces between the occurrences of sep,
\* one more piece than there are occurrences.  (The separators the program uses,
\* LF, CR, CR LF and "/", cannot overlap themselves, so every occurrence counts.)
Split(s, sep) ==
    LET at == Positions(s, LAMBDA i : /\ s[i] = sep[1]
                                       /\ i + Len(sep) - 1 <= Len(s)
                                       /\ SubSeq(s, i, i + Len(sep) - 1) = sep)
    IN  [k \in 1..(Len(at) + 1) |->
            SubSeq(s,
                   IF k = 1 THEN 1 ELSE at[k - 1] + Len(sep),
                   IF k = Len(at) + 1 THEN Len(s) ELSE at[k] - 1)]

\* Concatenation of a sequence of strings.
RECURSIVE Concat(_)
Concat(ss) ==
    IF ss = <<>> THEN <<>>
    ELSE IF Len(ss) = 1 THEN ss[1]
    ELSE Concat(SubSeq(ss, 1, Len(ss) \div 2)) \o Concat(SubSeq(ss, Len(ss) \div 2 + 1, Len(ss)))

\* strings.Join(elems, sep).
Join(elems, sep) ==
    Concat([i \in 1..Len(elems) |-> IF i = 1 THEN elems[i] ELSE sep \o elems[i]])

\* strings.ReplaceAll(s, old, new): the pieces between the occurrences of old, joined by new.
ReplaceAll(s, old, new) == Join(Split(s, old), new)

----------------------------------------------------------------------------
(* run-validate.go: normalizeCode.                                         *)

\* normalizeCode without the second ReplaceAll: a lone CR is kept.
normalizeCodeKeepCR(code) ==
    LET c1 == ReplaceAll(code, <<CR, LF>>, <<LF>>)
        lines == Split(c1, <<LF>>)
        normalized == [i \in 1..Len(lines) |-> TrimRight(lines[i], {SP, TAB})]
    IN  TrimRight(Join(normalized, <<LF>>), {LF})

normalizeCode(code) ==
    LET c1 == ReplaceAll(code, <<CR, LF>>, <<LF>>)
        c2 == ReplaceAll(c1, <<CR>>, <<LF>>)
        lines == Split(c2, <<LF>>)
        normalized == [i \in 1..Len(lines) |-> TrimRight(lines[i], {SP, TAB})]
    IN  TrimRight(Join(normalized, <<LF>>), {LF})

----------------------------------------------------------------------------
(* The syntax tree (go/ast) as the program reads it.                       *)
(*                                                                         *)
(* A file is [parses, name, imports, decls].  decls lists, in textual      *)
(* order, the nodes ast.Inspect visits that the program looks at: every    *)
(* TypeSpec and every GenDecl of the file, those inside function bodies    *)
(* included.                                                               *)

Ident(name)          == [kind |-> "Ident", name |-> name]
SelectorExpr(x, sel) == [kind |-> "SelectorExpr", x |-> x, sel |-> sel]
ArrayType(elt)       == [kind |-> "ArrayType", elt |-> elt]
StarExpr(x)          == [kind |-> "StarExpr", x |-> x]
MapType              == [kind |-> "MapType"]
StructType(fields)   == [kind |-> "StructType", fields |-> fields]

\* ast.Field: names (empty for an embedded field), type, tag text, doc and line comments.
Field(names, type, tag, doc, comment) ==
    [names |-> names, type |-> type, tag |-> tag, doc |-> doc, comment |-> comment]

TypeSpec(name, type) == [kind |-> "TypeSpec", name |-> name, type |-> type]
ValueSpec(names, values) == [names |-> names, values |-> values]
GenDecl(tok, specs)  == [kind |-> "GenDecl", tok |-> tok, specs |-> specs]
CompositeLit(elts)   == [kind |-> "CompositeLit", elts |-> elts]
KeyValueExpr(key)    == [kind |-> "KeyValueExpr", key |-> key]
BasicLit             == [kind |-> "BasicLit"]
ImportSpec(name, path) == [name |-> name, path |-> path]

File(name, imports, decls) ==
    [parses |-> TRUE, name |-> name, imports |-> imports, decls |-> decls]

\* A file parser.ParseFile rejects (or that does not exist).
BadFile == [parses |-> FALSE, name |-> <<>>, imports |-> <<>>, decls |-> <<>>]

----------------------------------------------------------------------------
(* run-generate.go: the extractors.                                        *)

fieldInfo(name, type, comment, skip) ==
    [Name |-> name, Type |-> type, Comment |-> comment, Skip |-> skip,
     DefaultValue |-> <<>>, DefaultValueRef |-> <<>>]

RECURSIVE getTypeString(_)
getTypeString(expr) ==
    CASE expr.kind = "Ident"        -> expr.name
      [] expr.kind = "SelectorExpr" -> getTypeString(expr.x) \o <<".">> \o expr.sel
      [] expr.kind = "ArrayType"    -> <<"[", "]">> \o getTypeString(expr.elt)
      [] expr.kind = "StarExpr"     -> <<"*">> \o getTypeString(expr.x)
      [] OTHER                      -> <<"u","n","k","n","o","w","n">>

\* The exclusion marker pflags:"-".
SkipMarker == <<"p","f","l","a","g","s",":",QUOTE,"-",QUOTE>>

\* The comment text of one comment: leader and surrounding quotes stripped.
cleanComment(text) ==
    Trim(TrimSpace(TrimPrefix(TrimSpace(text), <<"/", "/">>)), {QUOTE})

\* fieldOf without the test of the tag: no field is skipped.
fieldOfNeverSkipped(field) ==
    fieldInfo(field.names[1],
              getTypeString(field.type),
              IF field.doc # <<>> THEN cleanComment(field.doc[1])
              ELSE IF field.comment # <<>> THEN cleanComment(field.comment[1])
              ELSE <<>>,
              FALSE)

\* The fieldInfo of one field declaration: its first name only.
fieldOf(field) ==
    fieldInfo(field.names[1],
              getTypeString(field.type),
              IF field.doc # <<>> THEN cleanComment(field.doc[1])
              ELSE IF field.comment # <<>> THEN cleanComment(field.comment[1])
              ELSE <<>>,
              Contains(field.tag, SkipMarker))

\* The loop over structType.Fields.List shared by extractStructFields and parseEmbeddedStruct.
RECURSIVE fieldsOfList(_)
fieldsOfList(list) ==
    IF list = <<>> THEN <<>>
    ELSE (IF Len(list[1].names) = 0 THEN <<>> ELSE <<fieldOf(list[1])>>)
         \o fieldsOfList(Tail(list))

\* The callback of ast.Inspect: true for the nodes that are a struct type named structName.
IsStructNamed(n, structName) ==
    n.kind = "TypeSpec" /\ n.name = structName /\ n.type.kind = "StructType"

\* The walk of extractStructFields over one file: every matching TypeSpec appends its fields.
RECURSIVE inspectStructs(_, _)
inspectStructs(decls, structName) ==
    IF decls = <<>> THEN [found |-> FALSE, fields |-> <<>>]
    ELSE LET rest == inspectStructs(Tail(decls), structName)
         IN  IF IsStructNamed(decls[1], structName)
             THEN [found |-> TRUE,
                   fields |-> fieldsOfList(decls[1].type.fields) \o rest.fields]
             ELSE rest

extractStructFields(file, structName) ==
    LET r == inspectStructs(file.decls, structName)
    IN  IF r.found THEN [err |-> "", fields |-> r.fields]
        ELSE [err |-> "struct not found", fields |-> <<>>]

defaultVarNameOf(structName) == <<"d","e","f","a","u","l","t">> \o Title(structName)

\* The keys one ValueSpec adds to the defaults map.
RECURSIVE keysOfElts(_)
keysOfElts(elts) ==
    IF elts = <<>> THEN {}
    ELSE (IF elts[1].kind = "KeyValueExpr" /\ elts[1].key.kind = "Ident"
          THEN {elts[1].key.name} ELSE {})
         \cup keysOfElts(Tail(elts))

keysOfValueSpec(spec, defaultVarName) ==
    UNION { IF spec.names[i] = defaultVarName
               /\ i <= Len(spec.values)
               /\ spec.values[i].kind = "CompositeLit"
            THEN keysOfElts(spec.values[i].elts)
            ELSE {} : i \in 1..Len(spec.names) }

\* inspectDefaults that stops at the first var declaration that yields keys.
RECURSIVE inspectDefaultsFirst(_, _)
inspectDefaultsFirst(decls, defaultVarName) ==
    IF decls = <<>> THEN {}
    ELSE LET here == IF decls[1].kind = "GenDecl" /\ decls[1].tok = "var"
                     THEN UNION { keysOfValueSpec(decls[1].specs[j], defaultVarName) :
                                    j \in 1..Len(decls[1].specs) }
                     ELSE {}
         IN  IF here # {} THEN here ELSE inspectDefaultsFirst(Tail(decls), defaultVarName)

\* The keys of every var declaration of the file that ast.Inspect visits.
RECURSIVE inspectDefaults(_, _)
inspectDefaults(decls, defaultVarName) ==
    IF decls = <<>> THEN {}
    ELSE (IF decls[1].kind = "GenDecl" /\ decls[1].tok = "var"
          THEN UNION { keysOfValueSpec(decls[1].specs[j], defaultVarName) :
                         j \in 1..Len(decls[1].specs) }
          ELSE {})
         \cup inspectDefaults(Tail(decls), defaultVarName)

\* The map of extractDefaults: field name -> default<Type>.<field name>.
extractDefaults(file, structName) ==
    LET defaultVarName == defaultVarNameOf(structName)
    IN  [k \in inspectDefaults(file.decls, defaultVarName) |-> defaultVarName \o <<".">> \o k]

\* The last element of a non-empty sequence.
Last(s) == s[Len(s)]

\* extractImports: alias -> import path; a later import of the same alias overwrites.
importAlias(imp) == IF imp.name # <<>> THEN imp.name ELSE Last(Split(imp.path, <<"/">>))

extractImports(file) ==
    LET aliases == { importAlias(file.imports[i]) : i \in 1..Len(file.imports) }
    IN  [a \in aliases |->
            file.imports[CHOOSE i \in 1..Len(file.imports) :
                            /\ importAlias(file.imports[i]) = a
                            /\ \A j \in (i+1)..Len(file.imports) :
                                  importAlias(file.imports[j]) # a].path]

----------------------------------------------------------------------------
(* run-generate.go: resolution of embedded structs.                        *)

\* A package directory as parser.ParseDir reads it: files [name, pkg, parses, decls].
DirFile(name, pkg, decls) == [name |-> name, pkg |-> pkg, parses |-> TRUE, decls |-> decls]

TestSuffix == <<"_","t","e","s","t",".","g","o">>

\* The files ParseDir keeps: the filter drops the files named *_test.go.
parsedFiles(dir) ==
    { i \in 1..Len(dir) : ~HasSuffix(dir[i].name, TestSuffix) }

\* The orders in which the two range loops over the maps pkgs and pkg.Files can visit
\* the parsed files: Go leaves the iteration order of a map unspecified, so every
\* order of the packages and, within a package, every order of its files.
IterationOrders(dir) ==
    LET F == parsedFiles(dir)
        n == Cardinality(F)
    IN  { o \in [1..n -> F] :
            /\ \A i, j \in 1..n : i # j => o[i] # o[j]
            /\ \A i, j, k \in 1..n :
                  (i < j /\ j < k /\ dir[o[i]].pkg = dir[o[k]].pkg)
                      => dir[o[j]].pkg = dir[o[i]].pkg }

\* The loops of parseEmbeddedStruct, files visited in the order o, from position i:
\* the first file with a matching struct ends both loops.
RECURSIVE firstFound(_, _, _, _)
firstFound(dir, structName, o, i) ==
    IF i > Len(o) THEN [found |-> FALSE, fields |-> <<>>]
    ELSE LET r == inspectStructs(dir[o[i]].decls, structName)
         IN  IF r.found THEN r ELSE firstFound(dir, structName, o, i + 1)

parseEmbeddedStruct(dir, structName, o) ==
    IF \E i \in parsedFiles(dir) : ~dir[i].parses
    THEN [err |-> "failed to parse package directory", fields |-> <<>>]
    ELSE LET r == firstFound(dir, structName, o, 1)
         IN  IF r.found THEN [err |-> "", fields |-> r.fields]
             ELSE [err |-> "struct not found in package", fields |-> <<>>]

embeddedStructInfo(typeName, pkgAlias, pkgPath, fields) ==
    [TypeName |-> typeName, PkgAlias |-> pkgAlias, PkgPath |-> pkgPath, Fields |-> fields]

\* embeddedOfList with a type that is not found in its package kept as an embedded
\* struct without fields.
RECURSIVE embeddedOfListKeepUnfound(_, _, _, _)
embeddedOfListKeepUnfound(list, imports, dirs, ord) ==
    IF list = <<>> THEN <<>>
    ELSE LET field == list[1]
             rest  == embeddedOfListKeepUnfound(Tail(list), imports, dirs, ord)
         IN  IF Len(field.names) # 0 THEN rest
             ELSE IF field.type.kind # "SelectorExpr" THEN rest
             ELSE IF field.type.x.kind # "Ident" THEN rest
             ELSE LET pkgAlias == field.type.x.name
                      typeName == field.type.sel
                  IN  IF pkgAlias \notin DOMAIN imports THEN rest
                      ELSE LET pkgPath == imports[pkgAlias]
                           IN  IF pkgPath \notin DOMAIN dirs THEN rest
                               ELSE LET r == parseEmbeddedStruct(dirs[pkgPath], typeName,
                                                                  ord[pkgPath])
                                    IN  <<embeddedStructInfo(typeName, pkgAlias, pkgPath,
                                                             r.fields)>> \o rest

\* The embedded structs one field list contributes.  dirs maps the import paths
\* `go list` resolves to their directories; ord gives the map iteration order of each.
RECURSIVE embeddedOfList(_, _, _, _)
embeddedOfList(list, imports, dirs, ord) ==
    IF list = <<>> THEN <<>>
    ELSE LET field == list[1]
             rest  == embeddedOfList(Tail(list), imports, dirs, ord)
         IN  IF Len(field.names) # 0 THEN rest
             ELSE IF field.type.kind # "SelectorExpr" THEN rest
             ELSE IF field.type.x.kind # "Ident" THEN rest
             ELSE LET pkgAlias == field.type.x.name
                      typeName == field.type.sel
                  IN  IF pkgAlias \notin DOMAIN imports THEN rest
                      ELSE LET pkgPath == imports[pkgAlias]
                           IN  IF pkgPath \notin DOMAIN dirs THEN rest
                               ELSE LET r == parseEmbeddedStruct(dirs[pkgPath], typeName,
                                                                  ord[pkgPath])
                                    IN  IF r.err # "" THEN rest
                                        ELSE <<embeddedStructInfo(typeName, pkgAlias,
                                                                  pkgPath, r.fields)>>
                                             \o rest

RECURSIVE inspectEmbedded(_, _, _, _, _)
inspectEmbedded(decls, structName, imports, dirs, ord) ==
    IF decls = <<>> THEN <<>>
    ELSE (IF IsStructNamed(decls[1], structName)
          THEN embeddedOfList(decls[1].type.fields, imports, dirs, ord)
          ELSE <<>>)
         \o inspectEmbedded(Tail(decls), structName, imports, dirs, ord)

extractEmbeddedStructs(file, structName, dirs, ord) ==
    inspectEmbedded(file.decls, structName, extractImports(file), dirs, ord)

----------------------------------------------------------------------------
(* run-generate.go: naming and type mapping.                               *)

RECURSIVE camelToKebabFrom(_, _)
camelToKebabFrom(s, i) ==
    IF i > Len(s) THEN <<>>
    ELSE (IF i > 1 /\ IsUpper(s[i]) THEN <<"-">> ELSE <<>>)
         \o <<ToLower(s[i])>> \o camelToKebabFrom(s, i + 1)

\* camelToKebab without the test i > 0: a hyphen before an upper-case first letter too.
camelToKebabHyphenFirst(s) ==
    (IF s # <<>> /\ IsUpper(s[1]) THEN <<"-">> ELSE <<>>) \o camelToKebabFrom(s, 1)

camelToKebab(s) == camelToKebabFrom(s, 1)

T_string   == <<"s","t","r","i","n","g">>
T_bool     == <<"b","o","o","l">>
T_int      == <<"i","n","t">>
T_int32    == <<"i","n","t","3","2">>
T_int64    == <<"i","n","t","6","4">>
T_uint     == <<"u","i","n","t">>
T_uint32   == <<"u","i","n","t","3","2">>
T_uint64   == <<"u","i","n","t","6","4">>
T_float32  == <<"f","l","o","a","t","3","2">>
T_float64  == <<"f","l","o","a","t","6","4">>
T_strings  == <<"[","]","s","t","r","i","n","g">>
T_duration == <<"t","i","m","e",".","D","u","r","a","t","i","o","n">>

\* getPflagType on the lower-case spelling of the tag.
getPflagTypeAnyCase(goType) ==
    LET t == [i \in 1..Len(goType) |-> ToLower(goType[i])]
    IN  CASE t = T_string -> <<"S","t","r","i","n","g">>
          [] t = T_bool -> <<"B","o","o","l">>
          [] t \in {T_int, T_int32, T_int64} -> <<"I","n","t">>
          [] t \in {T_uint, T_uint32, T_uint64} -> <<"U","i","n","t">>
          [] t \in {T_float32, T_float64} -> <<"F","l","o","a","t","6","4">>
          [] t = T_strings -> <<"S","t","r","i","n","g","S","l","i","c","e">>
          [] t = [i \in 1..Len(T_duration) |-> ToLower(T_duration[i])]
               -> <<"D","u","r","a","t","i","o","n">>
          [] OTHER -> <<"S","t","r","i","n","g">>

getPflagType(goType) ==
    CASE goType = T_string -> <<"S","t","r","i","n","g">>
      [] goType = T_bool -> <<"B","o","o","l">>
      [] goType \in {T_int, T_int32, T_int64} -> <<"I","n","t">>
      [] goType \in {T_uint, T_uint32, T_uint64} -> <<"U","i","n","t">>
      [] goType \in {T_float32, T_float64} -> <<"F","l","o","a","t","6","4">>
      [] goType = T_strings -> <<"S","t","r","i","n","g","S","l","i","c","e">>
      [] goType = T_duration -> <<"D","u","r","a","t","i","o","n">>
      [] OTHER -> <<"S","t","r","i","n","g">>

getFlagGetterType(goType) ==
    CASE goType = T_string -> <<"G","e","t","S","t","r","i","n","g">>
      [] goType = T_bool -> <<"G","e","t","B","o","o","l">>
      [] goType \in {T_int, T_int32, T_int64} -> <<"G","e","t","I","n","t">>
      [] goType \in {T_uint, T_uint32, T_uint64} -> <<"G","e","t","U","i","n","t">>
      [] goType \in {T_float32, T_float64} -> <<"G","e","t","F","l","o","a","t","6","4">>
      [] goType = T_strings -> <<"G","e","t","S","t","r","i","n","g","S","l","i","c","e">>
      [] goType = T_duration -> <<"G","e","t","D","u","r","a","t","i","o","n">>
      [] OTHER -> <<"G","e","t","S","t","r","i","n","g">>

formatDefaultValue(goType, value) ==
    IF value = <<>>
    THEN CASE goType = T_string -> <<QUOTE, QUOTE>>
           [] goType = T_bool -> <<"false">>
           [] goType \in {T_int, T_int32, T_int64, T_uint, T_uint32, T_uint64} -> <<"0">>
           [] goType \in {T_float32, T_float64} -> <<"0.0">>
           [] goType = T_strings -> <<"nil">>
           [] OTHER -> <<QUOTE, QUOTE>>
    ELSE CASE goType = T_string -> <<QUOTE>> \o value \o <<QUOTE>>
           [] goType \in {T_bool, T_int, T_int32, T_int64, T_uint, T_uint32, T_uint64,
                          T_float32, T_float64} -> value
           [] OTHER -> <<QUOTE>> \o value \o <<QUOTE>>

S_Defaults == <<"D","e","f","a","u","l","t","s">>
S_Options  == <<"O","p","t","i","o","n","s">>
S_Config   == <<"C","o","n","f","i","g">>
S_flag     == <<"f","l","a","g">>
S_DefaultValue == <<"D","e","f","a","u","l","t","V","a","l","u","e">>

embeddedPrefix(embeddedTypeName) ==
    TrimSuffix(TrimSuffix(TrimSuffix(embeddedTypeName, S_Defaults), S_Options), S_Config)

embeddedFieldFlagName(embeddedTypeName, fieldName) ==
    S_flag \o embeddedPrefix(embeddedTypeName) \o Title(fieldName) \o S_DefaultValue

embeddedFieldKebabName(embeddedTypeName, fieldName) ==
    camelToKebab(embeddedPrefix(embeddedTypeName)) \o <<"-">> \o camelToKebab(fieldName)
        \o <<"-","d","e","f","a","u","l","t","-","v","a","l","u","e">>

lowerFirst(s) == IF Len(s) = 0 THEN s ELSE <<ToLower(s[1])>> \o Tail(s)

----------------------------------------------------------------------------
(* run-generate.go: generatePflagsCode.                                    *)

\* The concatenation of piece(s[1]), ..., piece(s[n]).
ForEach(s, piece(_)) == Concat([i \in 1..Len(s) |-> piece(s[i])])

\* fmt's %q on a string: the Go-quoted form.
quoteAtom(c) ==
    CASE c = QUOTE -> <<"\\", QUOTE>>
      [] c = "\\"  -> <<"\\", "\\">>
      [] c = TAB   -> <<"\\", "t">>
      [] c = LF    -> <<"\\", "n">>
      [] c = CR    -> <<"\\", "r">>
      [] OTHER     -> <<c>>

quoted(s) == <<QUOTE>> \o ForEach(s, quoteAtom) \o <<QUOTE>>

\* format.Source (go/format) on the text the renderer writes.  gofmt changes white
\* space only; of what it does, the treatment of blank lines is modelled: no blank
\* line at the start of the file, after an opening brace or parenthesis or before a
\* closing one, no two blank lines in a row, an empty parenthesised group on one line,
\* one line break at the end.  The padding that aligns columns is not modelled.
isBlankLine(line) == \A i \in 1..Len(line) : line[i] \in {SP, TAB}
opensBlock(line)  == line # <<>> /\ Last(line) \in {"{", "("}
closesBlock(line) ==
    LET t == TrimLeft(line, {SP, TAB}) IN t # <<>> /\ t[1] \in {"}", ")"}

\* The nearest non-blank line before and after line i (0 when there is none).
RECURSIVE prevNonBlank(_, _)
prevNonBlank(lines, i) ==
    IF i <= 1 THEN 0
    ELSE IF ~isBlankLine(lines[i - 1]) THEN i - 1 ELSE prevNonBlank(lines, i - 1)

RECURSIVE nextNonBlank(_, _)
nextNonBlank(lines, i) ==
    IF i >= Len(lines) THEN 0
    ELSE IF ~isBlankLine(lines[i + 1]) THEN i + 1 ELSE nextNonBlank(lines, i + 1)

\* Line i as gofmt prints it: <<>> when the line is dropped.
formatLine(lines, i) ==
    LET line == lines[i]
        p == prevNonBlank(lines, i)
        n == nextNonBlank(lines, i)
    IN  IF isBlankLine(line)
        THEN IF \/ p = 0 \/ n = 0 \/ p # i - 1
                \/ opensBlock(lines[p]) \/ closesBlock(lines[n])
             THEN <<>>
             ELSE <<LF>>
        ELSE IF line = <<")">> /\ p # 0 /\ Last(lines[p]) = "(" THEN <<>>
        ELSE IF Last(line) = "(" /\ n # 0 /\ lines[n] = <<")">>
             THEN SubSeq(line, 1, Len(line) - 1) \o <<"()", LF>>
        ELSE line \o <<LF>>

formatSource(text) ==
    LET lines == Split(text, <<LF>>)
    IN  Concat([i \in 1..Len(lines) |-> formatLine(lines, i)])

constLine(constName, flagName) ==
    <<TAB>> \o constName \o <<SP, "=", SP, QUOTE>> \o flagName \o <<QUOTE, LF>>

registerLine(pflagType, flagConst, defaultVal, comment) ==
    <<TAB, "flags", ".">> \o pflagType \o <<"(">> \o flagConst \o <<",", SP>>
        \o defaultVal \o <<",", SP>> \o quoted(comment) \o <<")", LF>>

getterStmt(varName, getterType, flagConst) ==
    <<TAB>> \o varName \o <<",", SP, "err", SP, ":=", SP, "flags", ".">> \o getterType
        \o <<"(">> \o flagConst \o <<")", LF>>
        \o <<TAB, "if err != nil", SP, "{", LF>>
        \o <<TAB, TAB, "return nil, err", LF>>
        \o <<TAB, "}", LF, LF>>

ownConstName(field) == S_flag \o Title(field.Name)

needsTimeOf(fields, embeddedStructs) ==
    \/ \E i \in 1..Len(fields) : fields[i].Type = T_duration
    \/ \E e \in 1..Len(embeddedStructs) :
          \E i \in 1..Len(embeddedStructs[e].Fields) :
              embeddedStructs[e].Fields[i].Type = T_duration

importBlock(needsTime, embeddedStructs) ==
    <<"import", SP, "(", LF>>
        \o (IF needsTime THEN <<TAB, QUOTE, "time", QUOTE, LF, LF>> ELSE <<>>)
        \o <<TAB, QUOTE, "github.com/spf13/pflag", QUOTE, LF>>
        \o ForEach(embeddedStructs,
                   LAMBDA embedded : <<LF, TAB, QUOTE>> \o embedded.PkgPath \o <<QUOTE, LF>>)
        \o <<")", LF, LF>>

constBlock(fields, embeddedStructs) ==
    <<"const", SP, "(", LF>>
        \o ForEach(fields,
                   LAMBDA field :
                       IF field.Skip THEN <<>>
                       ELSE constLine(ownConstName(field), camelToKebab(field.Name)))
        \o ForEach(embeddedStructs,
                   LAMBDA embedded :
                       <<LF, TAB, "//", SP>> \o embedded.TypeName \o <<SP, "flags", LF>>
                       \o ForEach(embedded.Fields,
                                  LAMBDA field :
                                      IF field.Skip THEN <<>>
                                      ELSE constLine(
                                             embeddedFieldFlagName(embedded.TypeName, field.Name),
                                             embeddedFieldKebabName(embedded.TypeName, field.Name))))
        \o <<")", LF, LF>>

ownRegistration(field) ==
    registerLine(getPflagType(field.Type), ownConstName(field),
                 IF field.DefaultValueRef # <<>> THEN field.DefaultValueRef
                 ELSE formatDefaultValue(field.Type, field.DefaultValue),
                 field.Comment)

embeddedRegistration(embedded, field) ==
    registerLine(getPflagType(field.Type),
                 embeddedFieldFlagName(embedded.TypeName, field.Name),
                 IF field.DefaultValueRef # <<>> THEN field.DefaultValueRef
                 ELSE formatDefaultValue(field.Type, field.DefaultValue),
                 IF field.Comment # <<>> THEN field.Comment
                 ELSE <<"set", SP>> \o camelToKebab(field.Name) \o <<SP, "default", SP, "value">>)

withFlagsFunc(fields, embeddedStructs, structNameC) ==
    <<"func", SP, "with">> \o structNameC \o <<"Flags", "(", "flags", SP, "*pflag.FlagSet", ")", SP, "{", LF>>
        \o ForEach(fields, LAMBDA field : IF field.Skip THEN <<>> ELSE ownRegistration(field))
        \o ForEach(embeddedStructs,
                   LAMBDA embedded :
                       <<LF, TAB, "//", SP>> \o embedded.TypeName \o <<SP, "flags", LF>>
                       \o ForEach(embedded.Fields,
                                  LAMBDA field :
                                      IF field.Skip THEN <<>>
                                      ELSE embeddedRegistration(embedded, field)))
        \o <<"}", LF, LF>>

skippedFieldsOf(fields) == SelectSeq(fields, LAMBDA field : field.Skip)

loadSignature(fields, structName, structNameC) ==
    <<"func", SP, "load">> \o structNameC \o <<"(", "flags", SP, "*pflag.FlagSet">>
        \o ForEach(skippedFieldsOf(fields),
                   LAMBDA field : <<",", SP>> \o field.Name \o <<SP>> \o field.Type)
        \o <<")", SP, "(", "*">> \o structName \o <<",", SP, "error", ")", SP, "{", LF>>

loadGetters(fields, embeddedStructs) ==
    ForEach(fields,
            LAMBDA field :
                IF field.Skip THEN <<>>
                ELSE getterStmt(field.Name, getFlagGetterType(field.Type), ownConstName(field)))
        \o ForEach(embeddedStructs,
                   LAMBDA embedded :
                       <<TAB, "//", SP>> \o embedded.TypeName \o <<LF>>
                       \o ForEach(embedded.Fields,
                                  LAMBDA field :
                                      IF field.Skip THEN <<>>
                                      ELSE getterStmt(lowerFirst(field.Name),
                                                      getFlagGetterType(field.Type),
                                                      embeddedFieldFlagName(embedded.TypeName,
                                                                            field.Name))))

loadReturn(fields, embeddedStructs, structName) ==
    <<TAB, "return", SP, "&">> \o structName \o <<"{", LF>>
        \o ForEach(fields,
                   LAMBDA field :
                       <<TAB, TAB>> \o field.Name \o <<":", SP>> \o field.Name \o <<",", LF>>)
        \o ForEach(embeddedStructs,
                   LAMBDA embedded :
                       <<TAB, TAB>> \o embedded.TypeName \o <<":", SP>> \o embedded.PkgAlias
                           \o <<".">> \o embedded.TypeName \o <<"{", LF>>
                       \o ForEach(embedded.Fields,
                                  LAMBDA field :
                                      <<TAB, TAB, TAB>> \o field.Name \o <<":", SP>>
                                          \o lowerFirst(field.Name) \o <<",", LF>>)
                       \o <<TAB, TAB, "}", ",", LF>>)
        \o <<TAB, "}", ",", SP, "nil", LF>>
        \o <<"}", LF>>

\* The text written to buf, before format.Source.
rawCode(fields, embeddedStructs, structName, packageName) ==
    LET structNameC == Title(structName)
        needsTime   == needsTimeOf(fields, embeddedStructs)
    IN  <<"// Code generated by struct-to-pflags; DO NOT EDIT.", LF, LF>>
        \o <<"package", SP>> \o packageName \o <<LF, LF>>
        \o importBlock(needsTime, embeddedStructs)
        \o constBlock(fields, embeddedStructs)
        \o withFlagsFunc(fields, embeddedStructs, structNameC)
        \o loadSignature(fields, structName, structNameC)
        \o loadGetters(fields, embeddedStructs)
        \o loadReturn(fields, embeddedStructs, structName)
        \o (IF needsTime
            THEN <<LF, "// Ensure unused import is used", LF,
                   "var _ = time.Second", LF>>
            ELSE <<>>)

generatePflagsCode(fields, embeddedStructs, structName, packageName) ==
    formatSource(rawCode(fields, embeddedStructs, structName, packageName))

----------------------------------------------------------------------------
(* run-generate.go: generateCode.                                          *)

\* structFields with the defaults merged in.
mergeDefaults(structFields, defaults) ==
    [i \in 1..Len(structFields) |->
        IF structFields[i].Name \in DOMAIN defaults
        THEN [structFields[i] EXCEPT !.DefaultValueRef = defaults[structFields[i].Name]]
        ELSE structFields[i]]

\* mergeEmbeddedDefaults with the reference taken from the defaults value of the
\* embedded type instead of the host's.
mergeEmbeddedDefaultsOfType(embeddedStructs, structName) ==
    [i \in 1..Len(embeddedStructs) |->
        [embeddedStructs[i] EXCEPT !.Fields =
            [j \in 1..Len(embeddedStructs[i].Fields) |->
                [embeddedStructs[i].Fields[j] EXCEPT !.DefaultValueRef =
                    defaultVarNameOf(embeddedStructs[i].TypeName) \o <<".">>
                        \o embeddedStructs[i].Fields[j].Name]]]]

\* embeddedStructs with every field's default routed through the host's defaults value.
mergeEmbeddedDefaults(embeddedStructs, structName) ==
    [i \in 1..Len(embeddedStructs) |->
        [embeddedStructs[i] EXCEPT !.Fields =
            [j \in 1..Len(embeddedStructs[i].Fields) |->
                [embeddedStructs[i].Fields[j] EXCEPT !.DefaultValueRef =
                    defaultVarNameOf(structName) \o <<".">> \o embeddedStructs[i].Fields[j].Name]]]]

\* One run of generateCode.  file is what parser.ParseFile returns for cfg.filePath,
\* dirs the package directories `go list` resolves, ord the map iteration orders of
\* this run.
generateCode(c, file, dirs, ord) ==
    IF ~file.parses THEN [err |-> "failed to parse file", code |-> <<>>]
    ELSE LET pkg == IF c.packageName = <<>> THEN file.name ELSE c.packageName
             sf  == extractStructFields(file, c.structName)
         IN  IF sf.err # ""
             THEN [err |-> "failed to extract struct fields", code |-> <<>>]
             ELSE [err |-> "",
                   code |-> generatePflagsCode(
                                mergeDefaults(sf.fields, extractDefaults(file, c.structName)),
                                mergeEmbeddedDefaults(
                                    extractEmbeddedStructs(file, c.structName, dirs, ord),
                                    c.structName),
                                c.structName, pkg)]

----------------------------------------------------------------------------
(* Inputs: the identifiers, fields and declarations the source files are   *)
(* built from.                                                             *)

N_config == <<"c","o","n","f","i","g">>
N_example == <<"e","x","a","m","p","l","e">>
N_main == <<"m","a","i","n">>
N_logFile == <<"l","o","g","F","i","l","e">>
N_debug == <<"d","e","b","u","g">>
N_version == <<"v","e","r","s","i","o","n">>
N_key == <<"k","e","y">>
N_host == <<"h","o","s","t">>
N_port == <<"p","o","r","t">>
N_timeout == <<"t","i","m","e","o","u","t">>
N_ghost == <<"g","h","o","s","t">>
N_shadow == <<"s","h","a","d","o","w">>
N_other == <<"o","t","h","e","r">>
N_build == <<"b","u","i","l","d">>

BACKTICK == "BQ"

\* A line comment with the given words.
LineComment(words) == <<"/", "/", SP>> \o words

\* The struct tag `pflags:"-"`.
SkipTag == <<BACKTICK>> \o SkipMarker \o <<BACKTICK>>
\* A struct tag without the marker: `json:"-"`.
JsonTag == <<BACKTICK, "j","s","o","n",":",QUOTE,"-",QUOTE, BACKTICK>>

\* The field declarations a struct is edited with.
F_logFile == Field(<<N_logFile>>, Ident(T_string), <<>>, <<LineComment(<<"log file path">>)>>, <<>>)
F_debug   == Field(<<N_debug>>, Ident(T_bool), JsonTag, <<>>, <<LineComment(<<QUOTE, "enable debug", QUOTE>>)>>)
F_version == Field(<<N_version>>, Ident(T_string), SkipTag, <<>>, <<>>)
F_key     == Field(<<N_key>>, ArrayType(Ident(T_string)), SkipTag, <<>>, <<>>)
F_host    == Field(<<N_host>>, Ident(T_string), <<>>, <<>>, <<>>)
F_timeout == Field(<<N_timeout>>, SelectorExpr(Ident(<<"t","i","m","e">>), <<"D","u","r","a","t","i","o","n">>),
                   <<>>, <<>>, <<>>)

FieldPool == <<F_logFile, F_debug, F_version, F_key, F_host, F_timeout>>

\* var defaultConfig = config{logFile: ..., version: ..., ghost: ...}
DefaultsDecl(keys) ==
    GenDecl("var", <<ValueSpec(<<defaultVarNameOf(N_config)>>,
                               <<CompositeLit([i \in 1..Len(keys) |-> KeyValueExpr(Ident(keys[i]))])>>)>>)

\* The number of field names a field list declares.
RECURSIVE NamesCount(_)
NamesCount(list) == IF list = <<>> THEN 0 ELSE Len(list[1].names) + NamesCount(Tail(list))

\* The names a field list declares.
NamesOf(list) == UNION { { list[i].names[j] : j \in 1..Len(list[i].names) } : i \in 1..Len(list) }

----------------------------------------------------------------------------
(* run-generate.go: generate; run-validate.go: validateGen and validate.   *)

NoFile == "no such file"

\* The map iteration orders one run can meet, one per resolvable package directory.
OrdersOf(dirs) ==
    { o \in [DOMAIN dirs -> UNION { IterationOrders(dirs[p]) : p \in DOMAIN dirs }] :
        \A p \in DOMAIN dirs : o[p] \in IterationOrders(dirs[p]) }

\* validateGen with the two log.Fatalf calls turned into returned errors.
validateGenReturnsErrors(c, file, dirs, ord, existing) ==
    LET g == generateCode(c, file, dirs, ord)
    IN  IF g.err # "" THEN "out of date"
        ELSE IF c.outputFile = <<>> \/ existing = NoFile THEN "out of date"
        ELSE IF normalizeCode(g.code) = normalizeCode(existing) THEN "nil"
        ELSE "out of date"

\* validateGen: "nil", the error "out of date", or the process ended by log.Fatalf.
validateGen(c, file, dirs, ord, existing) ==
    LET g == generateCode(c, file, dirs, ord)
    IN  IF g.err # "" THEN "fatal"
        ELSE IF c.outputFile = <<>> \/ existing = NoFile THEN "fatal"
        ELSE IF normalizeCode(g.code) = normalizeCode(existing) THEN "nil"
        ELSE "out of date"

\* Bounds of the model.
MaxFields == 2

OutputPath == <<"config.gen.go">>

\* -struct config -output config.gen.go, and -struct config -package main (printed).
CfgFile == [structName |-> N_config, packageName |-> <<>>, outputFile |-> OutputPath]
CfgPrint == [structName |-> N_config, packageName |-> N_main, outputFile |-> <<>>]

\* The source file: the target struct first, then the defaults declaration, if any.
SourceFile(fields, defaultsDecls) ==
    File(N_example, <<>>, <<TypeSpec(N_config, StructType(fields))>> \o defaultsDecls)

TargetFields(file) == file.decls[1].type.fields

WithTargetFields(file, fields) ==
    [file EXCEPT !.decls[1] = TypeSpec(N_config, StructType(fields))]

NoRec == [pc |-> "off"]
NoProbe == [fn |-> "off"]

\* hist.added: the fields added to the struct since validate last succeeded (-1: it
\* has not, or the output was regenerated since); hist.checked: the value of
\* hist.added that the validate run that has just ended started from (-1: the last
\* step was not a validate run); hist.rerun: how the text of the run of generateCode
\* that has just ended compares, after normalizeCode, with the text of the run before
\* it on the same inputs ("none": there was no such run).
NoHist == [added |-> -1, checked |-> -1, rerun |-> "none"]

\* The states whose expectedCode is the text generated from the current inputs.
CodeIsCurrent == result \in {"written", "printed", "nil", "out of date"}

Rerun(g) ==
    IF CodeIsCurrent /\ g.err = ""
    THEN IF normalizeCode(g.code) = normalizeCode(expectedCode) THEN "same" ELSE "differs"
    ELSE "none"

Init ==
    /\ \E d \in { <<>>, <<DefaultsDecl(<<N_logFile, N_version, N_ghost>>)>> } :
          node = SourceFile(<<>>, d)
    /\ pkgDirs = <<>>
    /\ cfg = CfgFile
    /\ outputFile = NoFile
    /\ expectedCode = <<>>
    /\ result = "none"
    /\ hist = NoHist
    /\ rec = NoRec
    /\ probe = NoProbe

\* generate(): generateCode, then the text is written to cfg.outputFile or printed.
Generate ==
    /\ \E o \in OrdersOf(pkgDirs) :
          LET g == generateCode(cfg, node, pkgDirs, o)
          IN  /\ IF g.err # ""
                 THEN /\ result' = "fatal"
                      /\ UNCHANGED <<outputFile, expectedCode>>
                 ELSE /\ expectedCode' = g.code
                      /\ IF cfg.outputFile # <<>>
                         THEN outputFile' = g.code /\ result' = "written"
                         ELSE outputFile' = outputFile /\ result' = "printed"
              /\ hist' = [NoHist EXCEPT !.rerun = Rerun(g)]
    /\ UNCHANGED <<node, pkgDirs, cfg, rec, probe>>

\* Validate that rewrites the output file when it is out of date.
ValidateAndRewrite ==
    /\ \E o \in OrdersOf(pkgDirs) :
          LET g == generateCode(cfg, node, pkgDirs, o)
              v == validateGen(cfg, node, pkgDirs, o, outputFile)
          IN  /\ result' = v
              /\ hist' = [added |-> IF v = "nil" THEN 0 ELSE hist.added,
                           checked |-> hist.added,
                           rerun |-> Rerun(g)]
              /\ expectedCode' = IF g.err = "" THEN g.code ELSE expectedCode
              /\ outputFile' = IF v = "out of date" THEN g.code ELSE outputFile
    /\ UNCHANGED <<node, pkgDirs, cfg, rec, probe>>

\* validate(): validateGen; an error ends the process through log.Fatalf.
Validate ==
    /\ \E o \in OrdersOf(pkgDirs) :
          LET g == generateCode(cfg, node, pkgDirs, o)
              v == validateGen(cfg, node, pkgDirs, o, outputFile)
          IN  /\ result' = v
              /\ hist' = [added |-> IF v = "nil" THEN 0 ELSE hist.added,
                           checked |-> hist.added,
                           rerun |-> Rerun(g)]
              /\ expectedCode' = IF g.err = "" THEN g.code ELSE expectedCode
    /\ UNCHANGED <<node, pkgDirs, cfg, outputFile, rec, probe>>

\* The developer adds one field declaration at the end of the target struct; the
\* declarations are taken in the order of FieldPool.
AddField ==
    /\ NamesCount(TargetFields(node)) < MaxFields
    /\ \E i \in 1..Len(FieldPool) :
          /\ \A j \in i..Len(FieldPool) :
                FieldPool[j].names[1] \notin NamesOf(TargetFields(node))
          /\ node' = WithTargetFields(node, Append(TargetFields(node), FieldPool[i]))
    /\ result' = "none"
    /\ hist' = [added |-> IF hist.added >= 0 THEN hist.added + 1 ELSE hist.added,
                 checked |-> -1, rerun |-> "none"]
    /\ UNCHANGED <<pkgDirs, cfg, outputFile, expectedCode, rec, probe>>

\* The name a declaration is widened with: host string becomes host, port string.
Sibling(name) ==
    CASE name = N_host -> N_port
      [] name = N_version -> N_build
      [] OTHER -> <<>>

\* The developer adds one field by adding a name to an existing declaration.
AddName ==
    /\ NamesCount(TargetFields(node)) < MaxFields
    /\ \E i \in 1..Len(TargetFields(node)) :
          /\ Len(TargetFields(node)[i].names) = 1
          /\ Sibling(TargetFields(node)[i].names[1]) # <<>>
          /\ node' = WithTargetFields(node,
                        [TargetFields(node) EXCEPT
                            ![i].names = <<@[1], Sibling(@[1])>>])
    /\ result' = "none"
    /\ hist' = [added |-> IF hist.added >= 0 THEN hist.added + 1 ELSE hist.added,
                 checked |-> -1, rerun |-> "none"]
    /\ UNCHANGED <<pkgDirs, cfg, outputFile, expectedCode, rec, probe>>

Next == Generate \/ Validate \/ AddField \/ AddName

Spec == Init /\ [][Next]_vars

----------------------------------------------------------------------------
(* SpecEmbed: generation and validation of a struct that embeds a struct of *)
(* another package, while files are added to the directory of that package. *)

N_opts == <<"o","p","t","s">>
N_ServerOptions == <<"S","e","r","v","e","r","O","p","t","i","o","n","s">>
N_Host == <<"H","o","s","t">>
N_Port == <<"P","o","r","t">>
N_Socket == <<"S","o","c","k","e","t">>
N_Token == <<"T","o","k","e","n">>

OptsPath == <<"example.com", "/", "app", "/">> \o N_opts

\* type ServerOptions struct { ... } as the files of the package directory declare it.
ServerOptionsA ==
    TypeSpec(N_ServerOptions,
             StructType(<<Field(<<N_Host>>, Ident(T_string), <<>>, <<>>, <<>>),
                          Field(<<N_Port>>, Ident(T_int), <<>>, <<>>, <<>>)>>))
ServerOptionsB ==
    TypeSpec(N_ServerOptions,
             StructType(<<Field(<<N_Host>>, Ident(T_string), <<>>, <<>>, <<>>),
                          Field(<<N_Socket>>, Ident(T_string), <<>>, <<>>, <<>>),
                          Field(<<N_Token>>, Ident(T_string), SkipTag, <<>>, <<>>)>>))

\* The files the package directory is filled from, in the order of their names:
\*   doc.go            package opts, no declaration
\*   options.go        package opts, ServerOptionsA
\*   options_test.go   package opts, ServerOptionsB (dropped by the filter)
\*   options_unix.go   package opts, ServerOptionsB (behind a build constraint)
\*   tool.go           package main, ServerOptionsB (behind a build constraint)
DirPool ==
    <<DirFile(<<"doc.go">>, N_opts, <<>>),
      DirFile(<<"options.go">>, N_opts, <<ServerOptionsA>>),
      DirFile(<<"options">> \o TestSuffix, N_opts, <<ServerOptionsB>>),
      DirFile(<<"options_unix.go">>, N_opts, <<ServerOptionsB>>),
      DirFile(<<"tool.go">>, N_main, <<ServerOptionsB>>)>>

MaxDirFiles == 2

\* The source file: config embeds opts.ServerOptions after the given own fields.
EmbedSource(fields) ==
    File(N_example, <<ImportSpec(<<>>, OptsPath)>>,
         <<TypeSpec(N_config,
                    StructType(fields
                               \o <<Field(<<>>, SelectorExpr(Ident(N_opts), N_ServerOptions),
                                          <<>>, <<>>, <<>>)>>))>>)

InitEmbed ==
    /\ node \in {EmbedSource(<<>>), EmbedSource(<<F_host>>)}
    /\ pkgDirs = [p \in {OptsPath} |-> <<>>]
    /\ cfg \in {CfgFile, CfgPrint}
    /\ outputFile = NoFile
    /\ expectedCode = <<>>
    /\ result = "none"
    /\ hist = NoHist
    /\ rec = NoRec
    /\ probe = NoProbe

\* A file appears in the package directory; the directory stays in the order of names.
AddDirFile ==
    /\ Len(pkgDirs[OptsPath]) < MaxDirFiles
    /\ \E i \in 1..Len(DirPool) :
          /\ \A k \in 1..Len(pkgDirs[OptsPath]) : pkgDirs[OptsPath][k] # DirPool[i]
          /\ pkgDirs' = [pkgDirs EXCEPT ![OptsPath] =
                            SelectSeq(DirPool,
                                      LAMBDA f : f = DirPool[i]
                                                 \/ \E k \in 1..Len(pkgDirs[OptsPath]) :
                                                       pkgDirs[OptsPath][k] = f)]
    /\ result' = "none"
    /\ hist' = NoHist
    /\ UNCHANGED <<node, cfg, outputFile, expectedCode, rec, probe>>

NextEmbed == Generate \/ Validate \/ AddDirFile

SpecEmbed == InitEmbed /\ [][NextEmbed]_vars

----------------------------------------------------------------------------
(* SpecNorm: validation of an output file that is edited by hand.          *)

MaxEdits == 2

NoEdits == [fn |-> "edit", n |-> 0]

\* The committed output file of SpecNorm: the text generated from the source file.
InitNorm ==
    /\ node = SourceFile(<<F_logFile>>, <<>>)
    /\ pkgDirs = <<>>
    /\ cfg = CfgFile
    /\ expectedCode = generateCode(cfg, node, pkgDirs, <<>>).code
    /\ outputFile = expectedCode
    /\ result = "none"
    /\ hist = NoHist
    /\ rec = NoRec
    /\ probe = NoEdits

\* Where the output file is edited: at its start, at its first line break, at its end.
RECURSIVE FirstBreak(_, _)
FirstBreak(text, i) ==
    IF i > Len(text) THEN 0
    ELSE IF text[i] \in {CR, LF} THEN i ELSE FirstBreak(text, i + 1)

EditPositions(text) == {1, Len(text) + 1} \cup ({FirstBreak(text, 1)} \ {0})

\* One atom is typed into the output file.
InsertAtom ==
    /\ probe.n < MaxEdits
    /\ \E i \in EditPositions(outputFile), c \in {SP, TAB, CR, LF, "x"} :
          outputFile' = SubSeq(outputFile, 1, i - 1) \o <<c>>
                            \o SubSeq(outputFile, i, Len(outputFile))
    /\ probe' = [probe EXCEPT !.n = @ + 1]
    /\ result' = "none"
    /\ hist' = NoHist
    /\ UNCHANGED <<node, pkgDirs, cfg, expectedCode, rec>>

\* One atom of the output file is deleted.
DeleteAtom ==
    /\ probe.n < MaxEdits
    /\ \E i \in (EditPositions(outputFile) \cup {Len(outputFile)}) \ {0, Len(outputFile) + 1} :
          outputFile' = SubSeq(outputFile, 1, i - 1)
                            \o SubSeq(outputFile, i + 1, Len(outputFile))
    /\ probe' = [probe EXCEPT !.n = @ + 1]
    /\ result' = "none"
    /\ hist' = NoHist
    /\ UNCHANGED <<node, pkgDirs, cfg, expectedCode, rec>>

NextNorm == Validate \/ InsertAtom \/ DeleteAtom

SpecNorm == InitNorm /\ [][NextNorm]_vars

----------------------------------------------------------------------------
(* SpecExtract: the extractors on source files built declaration by        *)
(* declaration.                                                            *)

MaxDecls == 2

\* var defaultConfig = config{...} with the given keys, var defaultOther = config{...},
\* var defaultConfig = load() and var n, defaultConfig = 1, config{key: ...}.
DefaultsOther ==
    GenDecl("var", <<ValueSpec(<<defaultVarNameOf(N_other)>>,
                               <<CompositeLit(<<KeyValueExpr(Ident(N_host))>>)>>)>>)
DefaultsCall == GenDecl("var", <<ValueSpec(<<defaultVarNameOf(N_config)>>, <<BasicLit>>)>>)
DefaultsPair ==
    GenDecl("var", <<ValueSpec(<<N_shadow, defaultVarNameOf(N_config)>>,
                               <<BasicLit, CompositeLit(<<KeyValueExpr(Ident(N_key)),
                                                          KeyValueExpr(BasicLit)>>)>>)>>)

\* The declarations a source file is built from; a declaration inside a function
\* body is a node of the tree like one at package level.
DeclPool ==
    <<TypeSpec(N_config, StructType(<<F_logFile, F_debug>>)),
      TypeSpec(N_config,
               StructType(<<Field(<<N_host, N_port>>, Ident(T_string), <<>>, <<>>, <<>>),
                            F_version>>)),
      TypeSpec(N_config,
               StructType(<<Field(<<>>, SelectorExpr(Ident(N_opts), N_ServerOptions),
                                  <<>>, <<>>, <<>>),
                            Field(<<>>, Ident(N_other), <<>>, <<>>, <<>>),
                            F_key>>)),
      TypeSpec(N_config, Ident(T_int)),
      TypeSpec(N_other, StructType(<<F_timeout>>)),
      DefaultsDecl(<<N_logFile, N_version>>),
      DefaultsDecl(<<N_debug, N_logFile, N_ghost>>),
      DefaultsOther,
      DefaultsCall,
      DefaultsPair,
      GenDecl("const", <<ValueSpec(<<defaultVarNameOf(N_config)>>,
                                   <<CompositeLit(<<KeyValueExpr(Ident(N_port))>>)>>)>>)>>

InitExtract ==
    /\ node = File(N_example, <<>>, <<>>)
    /\ pkgDirs = <<>>
    /\ cfg = CfgFile
    /\ outputFile = NoFile
    /\ expectedCode = <<>>
    /\ result = "none"
    /\ hist = NoHist
    /\ rec = NoRec
    /\ probe = NoProbe

\* A declaration is written at the end of the source file.
AppendDecl ==
    /\ Len(node.decls) < MaxDecls
    /\ \E i \in 1..Len(DeclPool) : node' = [node EXCEPT !.decls = Append(@, DeclPool[i])]
    /\ probe' = NoProbe
    /\ UNCHANGED <<pkgDirs, cfg, outputFile, expectedCode, result, hist, rec>>

ExtractStructFields ==
    /\ probe' = [fn |-> "extractStructFields", out |-> extractStructFields(node, cfg.structName)]
    /\ UNCHANGED <<node, pkgDirs, cfg, outputFile, expectedCode, result, hist, rec>>

ExtractDefaults ==
    /\ probe' = [fn |-> "extractDefaults", out |-> extractDefaults(node, cfg.structName)]
    /\ UNCHANGED <<node, pkgDirs, cfg, outputFile, expectedCode, result, hist, rec>>

NextExtract == AppendDecl \/ ExtractStructFields \/ ExtractDefaults

SpecExtract == InitExtract /\ [][NextExtract]_vars

----------------------------------------------------------------------------
(* SpecTypes: generation for fields of every type the syntax tree can give. *)

MaxTypedFields == 1

N_time == <<"t","i","m","e">>

\* The type expressions of the fields: the supported type tags, in the order string,
\* bool, int, int32, int64, uint, uint32, uint64, float32, float64, []string,
\* time.Duration, then other spellings and other types.
SupportedTypeExprs ==
    <<Ident(T_string), Ident(T_bool), Ident(T_int), Ident(T_int32), Ident(T_int64),
      Ident(T_uint), Ident(T_uint32), Ident(T_uint64), Ident(T_float32), Ident(T_float64),
      ArrayType(Ident(T_string)), SelectorExpr(Ident(N_time), <<"D","u","r","a","t","i","o","n">>)>>

OtherTypeExprs ==
    <<Ident(<<"B","o","o","l">>), Ident(<<"I","n","t">>),
      SelectorExpr(Ident(N_time), <<"d","u","r","a","t","i","o","n">>),
      SelectorExpr(Ident(N_time), <<"T","i","m","e">>),
      ArrayType(Ident(T_int)), StarExpr(Ident(T_string)), MapType>>

TypeExprPool == SupportedTypeExprs \o OtherTypeExprs

\* The names of the fields of AllTypes, one per supported type tag, and of the
\* fields added after them.
TypedNames ==
    <<<<"s","t","r">>,
      <<"f","l","a","g">>,
      <<"n">>,
      <<"n","3","2">>,
      <<"n","6","4">>,
      <<"u">>,
      <<"u","3","2">>,
      <<"u","6","4">>,
      <<"f","3","2">>,
      <<"f","6","4">>,
      <<"l","i","s","t">>,
      <<"w","a","i","t">>>>
ExtraNames == <<<<"e","x","t","r","a">>, <<"m","o","r","e">>, <<"l","a","s","t">>>>

\* A struct with one field of every supported type tag.
AllTypes ==
    [i \in 1..Len(SupportedTypeExprs) |->
        Field(<<TypedNames[i]>>, SupportedTypeExprs[i], <<>>, <<>>, <<>>)]

InitTypes ==
    /\ \E fields \in {<<>>, AllTypes},
          d \in {<<>>, <<DefaultsDecl(TypedNames \o ExtraNames)>>} :
          node = SourceFile(fields, d)
    /\ pkgDirs = <<>>
    /\ cfg = CfgFile
    /\ outputFile = NoFile
    /\ expectedCode = <<>>
    /\ result = "none"
    /\ hist = NoHist
    /\ rec = NoRec
    /\ probe = [fn |-> "typed", n |-> 0]

\* The developer adds a field of one of the types at the end of the struct.
AddTypedField ==
    /\ probe.n < MaxTypedFields
    /\ \E i \in 1..Len(TypeExprPool) :
          node' = WithTargetFields(node,
                      Append(TargetFields(node),
                             Field(<<ExtraNames[probe.n + 1]>>, TypeExprPool[i],
                                   <<>>, <<>>, <<>>)))
    /\ probe' = [probe EXCEPT !.n = @ + 1]
    /\ result' = "none"
    /\ hist' = NoHist
    /\ UNCHANGED <<pkgDirs, cfg, outputFile, expectedCode, rec>>

NextTypes == AddTypedField \/ Generate

SpecTypes == InitTypes /\ [][NextTypes]_vars

----------------------------------------------------------------------------
(* SpecRec: run-validate-rec.go, validateRecursive over the directives     *)
(* findGenerateDirectives returns.                                         *)

MaxDirectives == 3

\* The directories of the tree that is validated.  Each holds a config.go with a
\* go:generate directive for itself and, but for "new", a config.gen.go:
\*   ok    config.gen.go is the generated text
\*   win   config.gen.go is the generated text with CR LF line breaks
\*   old   config.gen.go was generated before the field logFile was added
\*   new   config.gen.go does not exist
\*   bad   config.go does not parse
\*   lost  the directive names a struct that config.go does not declare
RecDirs == <<"ok", "win", "old", "new", "bad", "lost">>

RecSourcePath(dir) == <<dir, "/", "config", ".go">>
RecOutputPath(dir) == <<dir, "/", "config", ".gen", ".go">>

\* parser.ParseFile on the path.
RecSource(path) ==
    IF path = RecSourcePath("bad") THEN BadFile ELSE SourceFile(<<F_logFile>>, <<>>)

\* os.ReadFile on the path.
RecOutput(path) ==
    CASE path = RecOutputPath("new") -> NoFile
      [] path = RecOutputPath("old") ->
            generateCode(CfgFile, SourceFile(<<>>, <<>>), <<>>, <<>>).code
      [] path = RecOutputPath("win") ->
            ReplaceAll(generateCode(CfgFile, SourceFile(<<F_logFile>>, <<>>), <<>>, <<>>).code,
                       <<LF>>, <<CR, LF>>)
      [] OTHER -> generateCode(CfgFile, SourceFile(<<F_logFile>>, <<>>), <<>>, <<>>).code

generateDirective(dir) ==
    [sourceFile |-> RecSourcePath(dir),
     filePath   |-> RecSourcePath(dir),
     structName |-> IF dir = "lost" THEN N_ghost ELSE N_config,
     outputFile |-> RecOutputPath(dir),
     pkgName    |-> <<>>,
     lineNumber |-> 1]

\* rec: the run of validateRecursive: pc its position ("start", "loop", "done" when
\* it has returned or called os.Exit, "fatal" when log.Fatalf ended the process), i
\* the index of the directive validated next, seen the indices validateGen was called
\* for, failed the list of the same name, exit the exit status.
InitRec ==
    /\ node = File(N_example, <<>>, <<>>)
    /\ pkgDirs = <<>>
    /\ cfg = CfgFile
    /\ outputFile = NoFile
    /\ expectedCode = <<>>
    /\ result = "none"
    /\ hist = NoHist
    /\ \E n \in 0..MaxDirectives :
          \E dirs \in [1..n -> {RecDirs[k] : k \in 1..Len(RecDirs)}] :
              rec = [pc |-> "start",
                     directives |-> [k \in 1..n |-> generateDirective(dirs[k])],
                     i |-> 1, seen |-> {}, failed |-> <<>>, exit |-> 0]
    /\ probe = NoProbe

\* validateRecursive up to the loop: no directive, no validation.
RecStart ==
    /\ rec.pc = "start"
    /\ rec' = [rec EXCEPT !.pc = IF Len(rec.directives) = 0 THEN "done" ELSE "loop"]
    /\ UNCHANGED <<node, pkgDirs, cfg, outputFile, expectedCode, result, hist, probe>>

\* One iteration of the loop: validateGen on the directive.
RecValidate ==
    /\ rec.pc = "loop"
    /\ rec.i <= Len(rec.directives)
    /\ LET directive == rec.directives[rec.i]
           c == [structName |-> directive.structName,
                 packageName |-> directive.pkgName,
                 outputFile |-> directive.outputFile]
           v == validateGen(c, RecSource(directive.filePath), <<>>, <<>>,
                            RecOutput(directive.outputFile))
       IN  rec' = [rec EXCEPT
                     !.seen = @ \cup {rec.i},
                     !.pc = IF v = "fatal" THEN "fatal" ELSE @,
                     !.exit = IF v = "fatal" THEN 1 ELSE @,
                     !.failed = IF v = "out of date" THEN Append(@, directive.sourceFile)
                                ELSE @,
                     !.i = IF v = "fatal" THEN @ ELSE @ + 1]
    /\ UNCHANGED <<node, pkgDirs, cfg, outputFile, expectedCode, result, hist, probe>>

\* After the loop: the failed list is reported and the process exits with 1, or the
\* success line is printed.
RecFinish ==
    /\ rec.pc = "loop"
    /\ rec.i > Len(rec.directives)
    /\ rec' = [rec EXCEPT !.pc = "done", !.exit = IF Len(rec.failed) > 0 THEN 1 ELSE 0]
    /\ UNCHANGED <<node, pkgDirs, cfg, outputFile, expectedCode, result, hist, probe>>

NextRec == RecStart \/ RecValidate \/ RecFinish

SpecRec == InitRec /\ [][NextRec]_vars

----------------------------------------------------------------------------
(* SpecKebab: generation for a struct with one field, for every name of    *)
(* the field.                                                              *)

MaxNameLen == 3

\* The characters a field name is typed from: letters of both cases, a digit and the
\* underscore.
NameChars == {"a", "b", "A", "B", "1", "_"}

FieldName(file) == TargetFields(file)[1].names[1]

InitKebab ==
    /\ \E c \in {"a", "A", "_"} :
          node = SourceFile(<<Field(<<<<c>>>>, Ident(T_string), <<>>, <<>>, <<>>)>>, <<>>)
    /\ pkgDirs = <<>>
    /\ cfg = CfgFile
    /\ outputFile = NoFile
    /\ expectedCode = <<>>
    /\ result = "none"
    /\ hist = NoHist
    /\ rec = NoRec
    /\ probe = NoProbe

\* The developer makes the name of the field one character longer.
TypeNameChar ==
    /\ Len(FieldName(node)) < MaxNameLen
    /\ \E c \in NameChars :
          node' = WithTargetFields(node,
                      <<[TargetFields(node)[1] EXCEPT !.names = <<Append(@[1], c)>>]>>)
    /\ result' = "none"
    /\ hist' = NoHist
    /\ UNCHANGED <<pkgDirs, cfg, outputFile, expectedCode, rec, probe>>

NextKebab == TypeNameChar \/ Generate

SpecKebab == InitKebab /\ [][NextKebab]_vars

----------------------------------------------------------------------------
(* SpecHost: generation for a struct that is given own fields and          *)
(* embeddings of structs of other packages, resolvable and not.            *)

N_store == <<"s","t","o","r","e">>
N_gone == <<"g","o","n","e">>
N_lost == <<"l","o","s","t">>
N_ServerConfig == <<"S","e","r","v","e","r","C","o","n","f","i","g">>
N_StoreConfig == <<"S","t","o","r","e","C","o","n","f","i","g">>
N_Thing == <<"T","h","i","n","g">>
N_Timeout == <<"T","i","m","e","o","u","t">>
N_wait == <<"w","a","i","t">>

StorePath == <<"example.com", "/", "app", "/">> \o N_store
GonePath == <<"example.com", "/", "app", "/">> \o N_gone

DurationExpr == SelectorExpr(Ident(<<"t","i","m","e">>), <<"D","u","r","a","t","i","o","n">>)

\* The package directories `go list` resolves, one file each:
\*   opts/options.go   type ServerOptions struct { Host string; Port int; Token string `pflags:"-"` }
\*                     type ServerConfig struct { Host string }
\*                     var defaultServerOptions = ServerOptions{Host: ...}
\*   store/store.go    type StoreConfig struct { Timeout time.Duration }
\* The import path of package gone resolves to no directory.
HostDirs ==
    [p \in {OptsPath, StorePath} |->
        IF p = OptsPath
        THEN <<DirFile(<<"options.go">>, N_opts,
                       <<TypeSpec(N_ServerOptions,
                                  StructType(<<Field(<<N_Host>>, Ident(T_string), <<>>, <<>>, <<>>),
                                               Field(<<N_Port>>, Ident(T_int), <<>>, <<>>, <<>>),
                                               Field(<<N_Token>>, Ident(T_string), SkipTag, <<>>, <<>>)>>)),
                         TypeSpec(N_ServerConfig,
                                  StructType(<<Field(<<N_Host>>, Ident(T_string), <<>>, <<>>, <<>>)>>)),
                         GenDecl("var",
                                 <<ValueSpec(<<defaultVarNameOf(N_ServerOptions)>>,
                                             <<CompositeLit(<<KeyValueExpr(Ident(N_Host))>>)>>)>>)>>)>>
        ELSE <<DirFile(<<"store.go">>, N_store,
                       <<TypeSpec(N_StoreConfig,
                                  StructType(<<Field(<<N_Timeout>>, DurationExpr, <<>>, <<>>, <<>>)>>))>>)>>]

Embedding(pkgAlias, typeName) ==
    Field(<<>>, SelectorExpr(Ident(pkgAlias), typeName), <<>>, <<>>, <<>>)

F_wait == Field(<<N_wait>>, DurationExpr, SkipTag, <<>>, <<>>)

\* LogFile string: the name of logFile with its first letter in upper case.
N_LogFile == <<"L","o","g","F","i","l","e">>
F_LogFile == Field(<<N_LogFile>>, Ident(T_string), <<>>, <<>>, <<>>)

\* started time.Time `pflags:"-"`
F_started ==
    Field(<<<<"s","t","a","r","t","e","d">>>>,
          SelectorExpr(Ident(<<"t","i","m","e">>), <<"T","i","m","e">>), SkipTag, <<>>, <<>>)

\* The members the struct is given, in this order: own fields, embeddings that resolve
\* (two types of package opts, one of package store) and embeddings that do not: a
\* type its package does not declare, a package whose path resolves to no directory,
\* a package alias no import declares.
MemberPool ==
    <<F_logFile, F_LogFile, F_wait, F_started,
      Embedding(N_opts, N_ServerOptions),
      Embedding(N_opts, N_ServerConfig),
      Embedding(N_store, N_StoreConfig),
      Embedding(N_opts, N_Thing),
      Embedding(N_gone, N_Thing),
      Embedding(N_lost, N_Thing)>>

MaxMembers == 3

HostSource(members, defaultsDecls) ==
    File(N_example,
         <<ImportSpec(<<>>, OptsPath), ImportSpec(<<>>, StorePath), ImportSpec(<<>>, GonePath)>>,
         <<TypeSpec(N_config, StructType(members))>> \o defaultsDecls)

InitHost ==
    /\ \E d \in { <<>>, <<DefaultsDecl(<<N_logFile, N_Host>>)>> } : node = HostSource(<<>>, d)
    /\ pkgDirs = HostDirs
    /\ cfg = CfgFile
    /\ outputFile = NoFile
    /\ expectedCode = <<>>
    /\ result = "none"
    /\ hist = NoHist
    /\ rec = NoRec
    /\ probe = NoProbe

\* The developer adds one member at the end of the struct; the members are taken in
\* the order of MemberPool.
AddMember ==
    /\ Len(TargetFields(node)) < MaxMembers
    /\ \E i \in 1..Len(MemberPool) :
          /\ \A j \in i..Len(MemberPool) :
                \A k \in 1..Len(TargetFields(node)) : TargetFields(node)[k] # MemberPool[j]
          /\ node' = WithTargetFields(node, Append(TargetFields(node), MemberPool[i]))
    /\ result' = "none"
    /\ hist' = NoHist
    /\ UNCHANGED <<pkgDirs, cfg, outputFile, expectedCode, rec, probe>>

NextHost == AddMember \/ Generate

SpecHost == InitHost /\ [][NextHost]_vars

----------------------------------------------------------------------------
(* run-validate-rec.go: findGenerateDirectives and parseGenerateDirective. *)
(* A line is a sequence of atoms: the white space characters, "=", "/" and *)
(* the runs of other characters between them.                              *)

WhiteSpace == {SP, TAB, CR, LF}

\* strings.Fields(s): the maximal runs of non-space atoms.
Fields(s) ==
    LET starts == Positions(s, LAMBDA i : /\ s[i] \notin WhiteSpace
                                          /\ (i = 1 \/ s[i - 1] \in WhiteSpace))
        ends   == Positions(s, LAMBDA i : /\ s[i] \notin WhiteSpace
                                          /\ (i = Len(s) \/ s[i + 1] \in WhiteSpace))
    IN  [k \in 1..Len(starts) |-> SubSeq(s, starts[k], ends[k])]

\* strings.SplitN(s, sep, 2) for a separator of one atom.
SplitN2(s, sep) ==
    LET at == Positions(s, LAMBDA i : s[i] = sep)
    IN  IF at = <<>> THEN <<s>>
        ELSE <<SubSeq(s, 1, at[1] - 1), SubSeq(s, at[1] + 1, Len(s))>>

\* filepath.Clean: the elements of the path with empty and "." elements dropped and
\* each ".." taken with the element before it.
RECURSIVE cleanElements(_, _, _)
cleanElements(elems, out, rooted) ==
    IF elems = <<>> THEN out
    ELSE LET e == elems[1]
         IN  IF e = <<>> \/ e = <<".">> THEN cleanElements(Tail(elems), out, rooted)
             ELSE IF e = <<"..">>
                  THEN IF out # <<>> /\ Last(out) # <<"..">>
                       THEN cleanElements(Tail(elems), SubSeq(out, 1, Len(out) - 1), rooted)
                       ELSE IF rooted THEN cleanElements(Tail(elems), out, rooted)
                       ELSE cleanElements(Tail(elems), Append(out, e), rooted)
             ELSE cleanElements(Tail(elems), Append(out, e), rooted)

filepathClean(path) ==
    LET rooted == path # <<>> /\ path[1] = "/"
        out    == cleanElements(Split(path, <<"/">>), <<>>, rooted)
    IN  IF out = <<>> THEN (IF rooted THEN <<"/">> ELSE <<".">>)
        ELSE (IF rooted THEN <<"/">> ELSE <<>>) \o Join(out, <<"/">>)

\* filepath.Dir: all but the last element of the path, cleaned.
filepathDir(path) ==
    LET at == Positions(path, LAMBDA i : path[i] = "/")
    IN  filepathClean(IF at = <<>> THEN <<>> ELSE SubSeq(path, 1, Last(at)))

\* filepath.Join of two elements: empty elements are ignored.
filepathJoin(a, b) ==
    IF a = <<>> /\ b = <<>> THEN <<>>
    ELSE IF a = <<>> THEN filepathClean(b)
    ELSE IF b = <<>> THEN filepathClean(a)
    ELSE filepathClean(a \o <<"/">> \o b)

\* generateRegex.FindStringSubmatch(line): the text captured by (.+), or <<>> when
\* the line does not match  ^\s*//\s*go:generate\s+struct-to-pflags\s+(.+)$ .
GoGenerate == "go:generate"
ToolName == "struct-to-pflags"

\* The rest of s after the atom, <<>> when s does not start with it.
After(s, atom) == IF s # <<>> /\ s[1] = atom THEN Tail(s) ELSE <<>>

\* The rest of s after its leading white space, <<>> when s does not start with any.
AfterSpace(s) == IF s # <<>> /\ s[1] \in WhiteSpace THEN TrimLeft(s, WhiteSpace) ELSE <<>>

\* The text (.+) captures in e, what follows the tool name: e starts with white space
\* and the capture is what follows it, or the last white space when nothing does.
captureOf(e) ==
    IF e = <<>> \/ e[1] \notin WhiteSpace THEN <<>>
    ELSE IF TrimLeft(e, WhiteSpace) # <<>> THEN TrimLeft(e, WhiteSpace)
    ELSE IF Len(e) >= 2 THEN <<Last(e)>>
    ELSE <<>>

generateRegexMatch(line) ==
    captureOf(After(AfterSpace(After(TrimLeft(After(TrimLeft(line, WhiteSpace), "//"),
                                              WhiteSpace),
                                     GoGenerate)),
                    ToolName))

\* The loop of parseGenerateDirective over parts, from index i.
RECURSIVE parseParts(_, _, _, _)
parseParts(parts, i, directive, sourceDir) ==
    IF i > Len(parts) THEN [err |-> "", directive |-> directive]
    ELSE IF parts[i] = <<"-file">>
         THEN IF i + 1 > Len(parts)
              THEN [err |-> "missing value for -file flag", directive |-> directive]
              ELSE parseParts(parts, i + 2,
                              [directive EXCEPT !.filePath = filepathJoin(sourceDir, parts[i + 1])],
                              sourceDir)
    ELSE IF parts[i] = <<"-struct">>
         THEN IF i + 1 > Len(parts)
              THEN [err |-> "missing value for -struct flag", directive |-> directive]
              ELSE parseParts(parts, i + 2,
                              [directive EXCEPT !.structName = parts[i + 1]], sourceDir)
    ELSE IF parts[i] = <<"-output">>
         THEN IF i + 1 > Len(parts)
              THEN [err |-> "missing value for -output flag", directive |-> directive]
              ELSE parseParts(parts, i + 2,
                              [directive EXCEPT !.outputFile = filepathJoin(sourceDir, parts[i + 1])],
                              sourceDir)
    ELSE IF parts[i] = <<"-package">> \/ parts[i] = <<"-pkg">>
         THEN IF i + 1 > Len(parts)
              THEN [err |-> "missing value for -package flag", directive |-> directive]
              ELSE parseParts(parts, i + 2,
                              [directive EXCEPT !.pkgName = parts[i + 1]], sourceDir)
    ELSE parseParts(parts, i + 1, directive, sourceDir)

\* The parts of the arguments: every field split at its first "=".
partsOf(fields) == Concat([k \in 1..Len(fields) |-> SplitN2(fields[k], "=")])

\* parseGenerateDirective up to the checks of the required fields.
parseGenerateDirectiveUnchecked(sourceFile, args, lineNum) ==
    parseParts(partsOf(Fields(args)), 1,
               [sourceFile |-> sourceFile, filePath |-> <<>>,
                structName |-> <<>>, outputFile |-> <<>>,
                pkgName |-> <<>>, lineNumber |-> lineNum],
               filepathDir(sourceFile))

\* The checks of the required fields on the result r of the loop.
checkRequired(r) ==
    IF r.err # "" THEN r
    ELSE IF r.directive.filePath = <<>> THEN [r EXCEPT !.err = "missing -file flag"]
    ELSE IF r.directive.structName = <<>> THEN [r EXCEPT !.err = "missing -struct flag"]
    ELSE IF r.directive.outputFile = <<>> THEN [r EXCEPT !.err = "missing -output flag"]
    ELSE r

\* parseGenerateDirective: [err, directive].
parseGenerateDirective(sourceFile, args, lineNum) ==
    checkRequired(parseParts(partsOf(Fields(args)), 1,
                             [sourceFile |-> sourceFile, filePath |-> <<>>,
                              structName |-> <<>>, outputFile |-> <<>>,
                              pkgName |-> <<>>, lineNumber |-> lineNum],
                             filepathDir(sourceFile)))

\* The result of a scan or a walk that ended without an error.
Found(directives) == [err |-> "", directives |-> directives, path |-> <<>>, line |-> 0]

\* The scan of one file from line n: the directives of the matching lines, or the
\* first line whose directive does not parse.  scanMatch continues with the text the
\* line matched, scanParsed with what parseGenerateDirective returned for it.
RECURSIVE scanLines(_, _, _)
scanParsed(file, n, directives, r) ==
    IF r.err # ""
    THEN [err |-> "failed to parse directive", directives |-> <<>>,
          path |-> file.path, line |-> n]
    ELSE scanLines(file, n + 1, Append(directives, r.directive))

scanMatch(file, n, directives, match) ==
    IF match = <<>> THEN scanLines(file, n + 1, directives)
    ELSE scanParsed(file, n, directives, parseGenerateDirective(file.path, match, n))

scanLines(file, n, directives) ==
    IF n > Len(file.lines) THEN Found(directives)
    ELSE scanMatch(file, n, directives, generateRegexMatch(file.lines[n]))

\* filepath.Walk over the files of the tree, in lexical order, from file k; walkOn
\* continues after the scan of file k returned r.
RECURSIVE walkFrom(_, _, _)
walkOn(tree, k, r) == IF r.err # "" THEN r ELSE walkFrom(tree, k + 1, r.directives)

walkFrom(tree, k, directives) ==
    IF k > Len(tree) THEN Found(directives)
    ELSE IF ~HasSuffix(tree[k].path, <<".go">>) THEN walkFrom(tree, k + 1, directives)
    ELSE IF \/ HasSuffix(tree[k].path, <<".gen", ".go">>)
            \/ HasSuffix(tree[k].path, <<"_gen", ".go">>)
         THEN walkFrom(tree, k + 1, directives)
    ELSE walkOn(tree, k, scanLines(tree[k], 1, directives))

\* findGenerateDirectives: [err, directives]; with an error, the path and line the
\* message names.
findGenerateDirectives(tree) == walkFrom(tree, 1, <<>>)

----------------------------------------------------------------------------
(* SpecWalk: validateRecursive on a tree of files, from the walk that      *)
(* finds the directives to the exit of the process.                        *)

MaxTreeFiles == 3

TreeFile(path, lines) == [path |-> path, lines |-> lines]

PackageLine == <<"package", SP, "example">>

\* //go:generate struct-to-pflags -file=config.go -struct=config -output=config.gen.go
DirectiveEquals ==
    <<"//", GoGenerate, SP, ToolName, SP, "-file", "=", "config", ".go", SP,
      "-struct", "=">> \o N_config \o <<SP, "-output", "=", "config", ".gen", ".go">>

\*   // go:generate  struct-to-pflags -output config.gen.go -pkg example -struct config -file config.go
DirectiveSpaces ==
    <<TAB, "//", SP, GoGenerate, SP, SP, ToolName, SP, "-output", SP, "config", ".gen", ".go", SP,
      "-pkg", SP>> \o N_example \o <<SP, "-struct", SP>> \o N_config
        \o <<SP, "-file", SP, "config", ".go">>

\* //go:generate go run ./main.go -file config.go -struct config -output config.gen.go
DirectiveGoRun ==
    <<"//", GoGenerate, SP, "go", SP, "run", SP, ".", "/", "main", ".go", SP,
      "-file", SP, "config", ".go", SP, "-struct", SP>> \o N_config
        \o <<SP, "-output", SP, "config", ".gen", ".go">>

\* //go:generate struct-to-pflags -file config.go -struct config
DirectiveNoOutput ==
    <<"//", GoGenerate, SP, ToolName, SP, "-file", SP, "config", ".go", SP, "-struct", SP>>
        \o N_config

\* //go:generate struct-to-pflags -struct=config -output=config.gen.go
DirectiveNoFile ==
    <<"//", GoGenerate, SP, ToolName, SP, "-struct", "=">> \o N_config
        \o <<SP, "-output", "=", "config", ".gen", ".go">>

\* The files a tree is made of, in the order filepath.Walk visits them.
TreePool ==
    <<TreeFile(<<"new", "/", "config", ".go">>, <<DirectiveGoRun, PackageLine>>),
      TreeFile(<<"ok", "/", "config", ".gen", ".go">>, <<DirectiveNoFile, PackageLine>>),
      TreeFile(<<"ok", "/", "config", ".go">>, <<DirectiveEquals, PackageLine>>),
      TreeFile(<<"ok", "/", "notes", ".txt">>, <<DirectiveEquals>>),
      TreeFile(<<"old", "/", "config", ".go">>, <<PackageLine, DirectiveSpaces>>),
      TreeFile(<<"old", "/", "types", "_gen", ".go">>, <<DirectiveEquals>>),
      TreeFile(<<"win", "/", "config", ".go">>, <<PackageLine, <<>>, DirectiveNoOutput>>),
      TreeFile(<<"win", "/", "extra", ".go">>, <<DirectiveEquals, DirectiveNoFile>>)>>

\* The trees: the files of TreePool at an ascending choice of positions.
Trees ==
    UNION { { [k \in 1..n |-> TreePool[at[k]]] :
                at \in { f \in [1..n -> 1..Len(TreePool)] :
                           \A i, j \in 1..n : i < j => f[i] < f[j] } } :
            n \in 0..MaxTreeFiles }

InitWalk ==
    /\ node = File(N_example, <<>>, <<>>)
    /\ pkgDirs = <<>>
    /\ cfg = CfgFile
    /\ outputFile = NoFile
    /\ expectedCode = <<>>
    /\ result = "none"
    /\ hist = NoHist
    /\ rec = [pc |-> "start", directives |-> <<>>, i |-> 1, seen |-> {}, failed |-> <<>>,
              exit |-> 0, path |-> <<>>, line |-> 0]
    /\ \E tree \in Trees : probe = [fn |-> "tree", files |-> tree]

\* validateRecursive up to the loop: findGenerateDirectives on the tree; an error ends
\* the process in log.Fatalf, no directive ends the run.
RecFind ==
    /\ rec.pc = "start"
    /\ \E r \in {findGenerateDirectives(probe.files)} :
          rec' = IF r.err # ""
                 THEN [rec EXCEPT !.pc = "fatal", !.exit = 1, !.path = r.path, !.line = r.line]
                 ELSE [rec EXCEPT !.directives = r.directives,
                                  !.pc = IF Len(r.directives) = 0 THEN "done" ELSE "loop"]
    /\ UNCHANGED <<node, pkgDirs, cfg, outputFile, expectedCode, result, hist, probe>>

NextWalk == RecFind \/ RecValidate \/ RecFinish

SpecWalk == InitWalk /\ [][NextWalk]_vars

----------------------------------------------------------------------------
(* SpecParse: parseGenerateDirective on the arguments of a directive that  *)
(* is written flag by flag.                                                *)

MaxFlags == 3

\* The flags a directive is written with: the key, the value and the spelling
\* (-k=v when eq, -k v otherwise).
FlagPool ==
    { [key |-> <<"-file">>, value |-> v, eq |-> e] :
        v \in { <<"config", ".go">>,
                <<"..", "/", "shared", "/", "config", ".go">>,
                <<"cfg", "=", "1", ".go">> },
        e \in BOOLEAN }
    \cup { [key |-> <<"-struct">>, value |-> N_config, eq |-> e] : e \in BOOLEAN }
    \cup { [key |-> <<"-output">>, value |-> v, eq |-> e] :
             v \in { <<"config", ".gen", ".go">>, <<"out", "=", "1", ".gen", ".go">> },
             e \in BOOLEAN }
    \cup { [key |-> k, value |-> N_main, eq |-> e] :
             k \in { <<"-package">>, <<"-pkg">> }, e \in BOOLEAN }

\* The kind of a flag: -package and -pkg are the same flag.
FlagKind(key) == IF key = <<"-pkg">> THEN <<"-package">> ELSE key

\* The text of the arguments.
RenderFlags(flags) ==
    Join([k \in 1..Len(flags) |->
             flags[k].key \o (IF flags[k].eq THEN <<"=">> ELSE <<SP>>) \o flags[k].value],
         <<SP>>)

\* probe: the flags written so far, the file that holds the directive, and what
\* parseGenerateDirective returned for them (err "none": not called since the last
\* edit).
InitParse ==
    /\ node = File(N_example, <<>>, <<>>)
    /\ pkgDirs = <<>>
    /\ cfg = CfgFile
    /\ outputFile = NoFile
    /\ expectedCode = <<>>
    /\ result = "none"
    /\ hist = NoHist
    /\ rec = NoRec
    /\ \E src \in { <<"config", ".go">>, <<"ok", "/", "config", ".go">> } :
          probe = [fn |-> "parse", sourceFile |-> src, flags |-> <<>>, out |-> [err |-> "none"]]

\* The developer writes one more flag at the end of the directive.
WriteFlag ==
    /\ Len(probe.flags) < MaxFlags
    /\ \E f \in FlagPool :
          /\ \A k \in 1..Len(probe.flags) : FlagKind(probe.flags[k].key) # FlagKind(f.key)
          /\ probe' = [probe EXCEPT !.flags = Append(@, f), !.out = [err |-> "none"]]
    /\ UNCHANGED <<node, pkgDirs, cfg, outputFile, expectedCode, result, hist, rec>>

ParseDirective ==
    /\ probe.out.err = "none"
    /\ probe' = [probe EXCEPT
                    !.out = parseGenerateDirective(probe.sourceFile, RenderFlags(probe.flags), 1)]
    /\ UNCHANGED <<node, pkgDirs, cfg, outputFile, expectedCode, result, hist, rec>>

NextParse == WriteFlag \/ ParseDirective

SpecParse == InitParse /\ [][NextParse]_vars

----------------------------------------------------------------------------
(* SpecFrame: generation and validation while the source file and the      *)
(* output file are edited, broken and removed.                             *)

\* The source file can be worked on: it parses and declares the struct.
SourceIsSound == node.parses /\ node.decls # <<>>

InitFrame ==
    /\ node = SourceFile(<<>>, <<>>)
    /\ pkgDirs = <<>>
    /\ cfg = CfgFile
    /\ outputFile = NoFile
    /\ expectedCode = <<>>
    /\ result = "none"
    /\ hist = NoHist
    /\ rec = NoRec
    /\ probe = NoProbe

\* The developer adds a field to the struct of a sound source file.
EditStruct == SourceIsSound /\ AddField

\* The source file is left with a syntax error, or without the struct.
BreakSource ==
    /\ SourceIsSound
    /\ node' \in {BadFile, File(N_example, <<>>, <<>>)}
    /\ result' = "none"
    /\ hist' = NoHist
    /\ UNCHANGED <<pkgDirs, cfg, outputFile, expectedCode, rec, probe>>

\* The output file is deleted.
RemoveOutput ==
    /\ outputFile # NoFile
    /\ outputFile' = NoFile
    /\ result' = "none"
    /\ hist' = NoHist
    /\ UNCHANGED <<node, pkgDirs, cfg, expectedCode, rec, probe>>

NextFrame == Generate \/ Validate \/ EditStruct \/ BreakSource \/ RemoveOutput

SpecFrame == InitFrame /\ [][NextFrame]_vars

----------------------------------------------------------------------------
(* What the source file declares and what the generated text holds: the    *)
(* vocabulary of the properties.                                           *)

\* Every field name the field list declares, in declaration order, with the type
\* and the tag of its declaration: `a, b int` declares a and b.
RECURSIVE DeclaredFields(_)
DeclaredFields(list) ==
    IF list = <<>> THEN <<>>
    ELSE [j \in 1..Len(list[1].names) |->
             [name |-> list[1].names[j],
              type |-> getTypeString(list[1].type),
              skip |-> Contains(list[1].tag, SkipMarker)]]
         \o DeclaredFields(Tail(list))

NamesIn(declared) == [i \in 1..Len(declared) |-> declared[i].name]

\* The number of times the text holds the piece.
Occurrences(text, piece) == Len(Split(text, piece)) - 1

\* The parameters of the loading function after the flag set, as the text declares them.
LoadParams(code) ==
    LET lines == Split(code, <<LF>>)
        sig   == SelectSeq(lines, LAMBDA l : HasPrefix(l, <<"func", SP, "load">>))
    IN  IF sig = <<>> THEN <<>>
        ELSE LET after == Split(sig[1], <<"*pflag.FlagSet">>)[2]
                 list  == Split(after, <<")">>)[1]
                 parts == Split(list, <<",", SP>>)
             IN  [i \in 1..(Len(parts) - 1) |-> Split(parts[i + 1], <<SP>>)[1]]

\* The text holds a constant of the constants block for the field name.
HasConstant(code, name) == Contains(code, <<TAB>> \o S_flag \o Title(name) \o <<SP, "=">>)

\* The number of registration calls of the field name, and of those with the default.
Registrations(code, name) == Occurrences(code, <<"(">> \o S_flag \o Title(name) \o <<",", SP>>)
RegistrationsWith(code, d) ==
    Occurrences(code,
                <<TAB, "flags", ".">> \o getPflagType(d.type) \o <<"(">> \o S_flag
                    \o Title(d.name) \o <<",", SP>> \o d.default \o <<",", SP>>)

----------------------------------------------------------------------------
(* Properties of Spec.                                                     *)

\* C3: if validate succeeded and one new field has since been added to the struct,
\* the output file unchanged, validate reports the file out of date.
C3_AddedFieldIsReported == hist.checked = 1 => result = "out of date"

\* C4: skip law for own fields: a field whose tag holds the marker has no constant
\* and no registration call; the parameters of the loading function after the flag
\* set are exactly the skipped fields, in declaration order.
C4_SkipLaw ==
    CodeIsCurrent =>
        LET declared == DeclaredFields(TargetFields(node))
            skipped  == SelectSeq(declared, LAMBDA d : d.skip)
        IN  /\ \A i \in 1..Len(skipped) :
                  /\ ~HasConstant(expectedCode, skipped[i].name)
                  /\ Registrations(expectedCode, skipped[i].name) = 0
            /\ LoadParams(expectedCode) = NamesIn(skipped)

\* The type tags the generator supports.
SupportedTags ==
    {T_string, T_bool, T_int, T_int32, T_int64, T_uint, T_uint32, T_uint64,
     T_float32, T_float64, T_strings, T_duration}

\* The zero literals of a type tag: a literal of the zero value that is an
\* expression of the type.
ZeroLiterals(tag) ==
    CASE tag = T_string -> {<<QUOTE, QUOTE>>}
      [] tag = T_bool -> {<<"false">>}
      [] tag \in {T_int, T_int32, T_int64, T_uint, T_uint32, T_uint64} -> {<<"0">>}
      [] tag \in {T_float32, T_float64} -> {<<"0.0">>}
      [] tag = T_strings -> {<<"nil">>, <<"[]string{}">>}
      [] tag = T_duration -> {<<"0">>, <<"time.Duration(0)">>}
      [] OTHER -> {}

\* C8: default-fallback law: a non-skipped own field of a supported type tag is
\* registered exactly once; without an entry in the defaults value the default of the
\* call is the zero literal of its type tag, with an entry it is default<Type>.<Field>.
C8_DefaultFallback ==
    CodeIsCurrent =>
        LET declared == DeclaredFields(TargetFields(node))
            keys     == inspectDefaults(node.decls, defaultVarNameOf(cfg.structName))
        IN  \A i \in 1..Len(declared) :
                LET d == declared[i]
                IN  (~d.skip /\ d.type \in SupportedTags) =>
                        /\ Registrations(expectedCode, d.name) = 1
                        /\ IF d.name \in keys
                           THEN RegistrationsWith(expectedCode,
                                    [name |-> d.name, type |-> d.type,
                                     default |-> defaultVarNameOf(cfg.structName)
                                                    \o <<".">> \o d.name]) = 1
                           ELSE \E z \in ZeroLiterals(d.type) :
                                    RegistrationsWith(expectedCode,
                                        [name |-> d.name, type |-> d.type,
                                         default |-> z]) = 1

----------------------------------------------------------------------------
(* Properties of SpecEmbed.                                                *)

\* C1: generation is deterministic: two runs of generateCode on the same source file,
\* the same package directories and the same configuration return the same text
\* after normalizeCode.
C1_Deterministic == hist.rerun # "differs"

----------------------------------------------------------------------------
(* Properties of SpecNorm.                                                 *)

\* A line of the text ends at an LF and at a CR that no LF follows (CR LF is one break).
IsBreak(text, i) == text[i] = LF \/ (text[i] = CR /\ (i = Len(text) \/ text[i + 1] # LF))

\* What two texts agree on when they differ only in their line endings, in spaces
\* and tabs at the end of lines and in blank lines at the end: the lines of the text,
\* each without its trailing spaces and tabs, up to the last line that is not empty.
CanonLines(text) ==
    LET ends == Positions(text, LAMBDA i : IsBreak(text, i))
        raw(k) == SubSeq(text,
                         IF k = 1 THEN 1 ELSE ends[k - 1] + 1,
                         IF k = Len(ends) + 1 THEN Len(text) ELSE ends[k] - 1)
        body(k) == IF raw(k) # <<>> /\ Last(raw(k)) = CR
                   THEN SubSeq(raw(k), 1, Len(raw(k)) - 1) ELSE raw(k)
        strip(l) == LET keep == { i \in 1..Len(l) : l[i] \notin {SP, TAB} }
                    IN  IF keep = {} THEN <<>>
                        ELSE SubSeq(l, 1, CHOOSE m \in keep : \A j \in keep : j <= m)
        lines == [k \in 1..(Len(ends) + 1) |-> strip(body(k))]
        full  == { k \in 1..Len(lines) : lines[k] # <<>> }
    IN  IF full = {} THEN <<>>
        ELSE SubSeq(lines, 1, CHOOSE m \in full : \A j \in full : j <= m)

\* C2: with the text generated and the output file read, validateGen returns nil
\* exactly when the generated text and the output file agree up to line endings,
\* trailing spaces and tabs of lines and trailing blank lines.
C2_VerdictIsNormalizedEquality ==
    result \in {"nil", "out of date"} =>
        (result = "nil" <=> CanonLines(expectedCode) = CanonLines(outputFile))

\* A hand-edited file with a CR LF or CR line break, a trailing tab or another
\* trailing character is accepted.
C2_Witness ==
    /\ result = "nil"
    /\ outputFile # expectedCode
    /\ \E i \in 1..Len(outputFile) : outputFile[i] \in {CR, TAB}

----------------------------------------------------------------------------
(* Properties of SpecExtract.                                              *)

\* The keys the composite literal of the name at (i, j, k) gives: declaration i of
\* the file, its specification j, the name k of that specification.
DeclaresDefaults(file, i, j, k) ==
    /\ file.decls[i].kind = "GenDecl"
    /\ file.decls[i].tok = "var"
    /\ file.decls[i].specs[j].names[k] = defaultVarNameOf(cfg.structName)

DefaultsSites(file) ==
    { site \in (1..Len(file.decls)) \X (1..2) \X (1..2) :
        /\ file.decls[site[1]].kind = "GenDecl"
        /\ site[2] <= Len(file.decls[site[1]].specs)
        /\ site[3] <= Len(file.decls[site[1]].specs[site[2]].names)
        /\ DeclaresDefaults(file, site[1], site[2], site[3]) }

KeysAt(file, site) ==
    LET spec == file.decls[site[1]].specs[site[2]]
    IN  IF site[3] <= Len(spec.values) /\ spec.values[site[3]].kind = "CompositeLit"
        THEN { spec.values[site[3]].elts[e].key.name :
                 e \in { e \in 1..Len(spec.values[site[3]].elts) :
                           /\ spec.values[site[3]].elts[e].kind = "KeyValueExpr"
                           /\ spec.values[site[3]].elts[e].key.kind = "Ident" } }
        ELSE {}

\* The textually first declaration of default<Type>.
FirstSite(file) ==
    CHOOSE site \in DefaultsSites(file) :
        \A other \in DefaultsSites(file) : site[1] <= other[1]

\* C9 as stated: with more than one declaration of default<Type>, only the textually
\* first one determines the mapping.
C9_FirstDeclarationWins ==
    (probe.fn = "extractDefaults" /\ DefaultsSites(node) # {}) =>
        DOMAIN probe.out = KeysAt(node, FirstSite(node))

\* C9 amended: the mapping holds the keys of every declaration of default<Type> in
\* the file, and maps each key k to default<Type>.k.
C9_EveryDeclarationCounts ==
    probe.fn = "extractDefaults" =>
        /\ DOMAIN probe.out = UNION { KeysAt(node, site) : site \in DefaultsSites(node) }
        /\ \A k \in DOMAIN probe.out :
              probe.out[k] = defaultVarNameOf(cfg.structName) \o <<".">> \o k

\* Two declarations of default<Type>, and a key that only the later one gives is in
\* the mapping.
C9_Witness ==
    /\ probe.fn = "extractDefaults"
    /\ Cardinality(DefaultsSites(node)) = 2
    /\ \E k \in DOMAIN probe.out : k \notin KeysAt(node, FirstSite(node))

\* The struct types of the file with the target name, by position.
TargetStructs(file) ==
    { i \in 1..Len(file.decls) :
        /\ file.decls[i].kind = "TypeSpec"
        /\ file.decls[i].name = cfg.structName
        /\ file.decls[i].type.kind = "StructType" }

\* C10: extractStructFields returns one entry for every named field the target struct
\* declares, in declaration order, and none for an embedded field; it fails exactly
\* when the file has no struct type with the target name.
C10_OneEntryPerNamedField ==
    probe.fn = "extractStructFields" =>
        /\ probe.out.err # "" <=> TargetStructs(node) = {}
        /\ TargetStructs(node) # {} =>
              LET first == CHOOSE i \in TargetStructs(node) :
                               \A j \in TargetStructs(node) : i <= j
                  declared == DeclaredFields(node.decls[first].type.fields)
              IN  [i \in 1..Len(probe.out.fields) |-> probe.out.fields[i].Name]
                      = NamesIn(declared)

----------------------------------------------------------------------------
(* Properties of SpecTypes.                                                *)

A_String == <<"S","t","r","i","n","g">>
A_Bool == <<"B","o","o","l">>
A_Int == <<"I","n","t">>
A_Uint == <<"U","i","n","t">>
A_Float64 == <<"F","l","o","a","t","6","4">>
A_StringSlice == <<"S","t","r","i","n","g","S","l","i","c","e">>
A_Duration == <<"D","u","r","a","t","i","o","n">>

\* The mapping of the type tags to the accessors, as the specification lists it.
AccessorOf(tag) ==
    CASE tag = T_string -> A_String
      [] tag = T_bool -> A_Bool
      [] tag \in {T_int, T_int32, T_int64} -> A_Int
      [] tag \in {T_uint, T_uint32, T_uint64} -> A_Uint
      [] tag \in {T_float32, T_float64} -> A_Float64
      [] tag = T_strings -> A_StringSlice
      [] tag = T_duration -> A_Duration
      [] OTHER -> A_String

LowerCase(s) == [i \in 1..Len(s) |-> ToLower(s[i])]

\* The mapping read without regard to the case of the tag: the accessor of the
\* listed tag that has the same lower-case spelling, if there is one.
AccessorOfAnyCase(tag) ==
    IF \E t \in SupportedTags : LowerCase(t) = LowerCase(tag)
    THEN AccessorOf(CHOOSE t \in SupportedTags : LowerCase(t) = LowerCase(tag))
    ELSE A_String

\* The generated text registers the field with flags.<accessor>(flag<Name>, and reads
\* it with <name>, err := flags.Get<accessor>(flag<Name>).
RegistersWith(code, d, accessor) ==
    Contains(code, <<TAB, "flags", ".">> \o accessor \o <<"(">> \o S_flag \o Title(d.name)
                       \o <<",", SP>>)
ReadsWith(code, d, accessor) ==
    Contains(code, <<TAB>> \o d.name \o <<",", SP, "err", SP, ":=", SP, "flags", ".">>
                       \o <<"G","e","t">> \o accessor \o <<"(">> \o S_flag \o Title(d.name)
                       \o <<")", LF>>)

\* C7 as stated: the accessor of a field is the one of the mapping, read without
\* regard to the case of the tag spelling, and the getter is "Get" and that accessor.
C7_MappingAnyCase ==
    CodeIsCurrent =>
        LET declared == DeclaredFields(TargetFields(node))
        IN  \A i \in 1..Len(declared) :
                /\ RegistersWith(expectedCode, declared[i], AccessorOfAnyCase(declared[i].type))
                /\ ReadsWith(expectedCode, declared[i], AccessorOfAnyCase(declared[i].type))

\* C7 amended: the mapping is total and is read on the exact spelling of the tag: a
\* tag that differs from a listed one in case only is any other tag and maps to
\* String; the getter is "Get" followed by the registration accessor of the tag.
C7_MappingExactCase ==
    CodeIsCurrent =>
        LET declared == DeclaredFields(TargetFields(node))
        IN  \A i \in 1..Len(declared) :
                /\ RegistersWith(expectedCode, declared[i], AccessorOf(declared[i].type))
                /\ ReadsWith(expectedCode, declared[i], AccessorOf(declared[i].type))

\* A field of every supported type and a field of type Bool have been generated for;
\* the field of type Bool is registered with flags.String.
C7_Witness ==
    /\ CodeIsCurrent
    /\ Len(TargetFields(node)) = Len(AllTypes) + 1
    /\ LET d == DeclaredFields(TargetFields(node))[Len(AllTypes) + 1]
       IN  /\ d.type = A_Bool
           /\ RegistersWith(expectedCode, d, A_String)
           /\ ReadsWith(expectedCode, d, A_String)

\* github.com/spf13/pflag: the value type of FlagSet.<accessor> and of
\* FlagSet.Get<accessor>, for the accessors of the library that have the value type
\* of a supported type tag.
PflagAccessors ==
    {A_String, A_Bool, A_Int, A_Int \o <<"3","2">>, A_Int \o <<"6","4">>,
     A_Uint, A_Uint \o <<"3","2">>, A_Uint \o <<"6","4">>,
     <<"F","l","o","a","t","3","2">>, A_Float64, A_StringSlice, A_Duration}

PflagValueType(accessor) ==
    CASE accessor = A_StringSlice -> T_strings
      [] accessor = A_Duration -> T_duration
      [] OTHER -> LowerCase(accessor)

\* C6: round trip: for a struct with a field of every supported type tag and a
\* defaults value with an entry for each, every field is registered through an
\* accessor that takes the default default<Type>.<field> as a value of the type of
\* the field, and is read through a getter that yields a value of that type.
C6_RoundTrip ==
    (CodeIsCurrent /\ inspectDefaults(node.decls, defaultVarNameOf(cfg.structName)) # {}) =>
        LET declared == DeclaredFields(TargetFields(node))
        IN  \A i \in 1..Len(declared) :
                declared[i].type \in SupportedTags =>
                    /\ \E a \in PflagAccessors :
                          /\ RegistrationsWith(expectedCode,
                                 [name |-> declared[i].name, type |-> declared[i].type,
                                  default |-> defaultVarNameOf(cfg.structName) \o <<".">>
                                                  \o declared[i].name]) = 1
                          /\ RegistersWith(expectedCode, declared[i], a)
                          /\ PflagValueType(a) = declared[i].type
                    /\ \E a \in PflagAccessors :
                          /\ ReadsWith(expectedCode, declared[i], a)
                          /\ PflagValueType(a) = declared[i].type

----------------------------------------------------------------------------
(* Properties of SpecRec.                                                  *)

\* What the tree holds for a directive: "unreadable" when the source file does not
\* parse or declares no struct of the name or the output file does not exist,
\* otherwise whether the output file matches the text generated from the source.
DirectiveState(d) ==
    LET src == RecSource(d.filePath)
        out == RecOutput(d.outputFile)
        c   == [structName |-> d.structName, packageName |-> d.pkgName,
                outputFile |-> d.outputFile]
    IN  IF \/ ~src.parses
           \/ ~\E k \in 1..Len(src.decls) : IsStructNamed(src.decls[k], d.structName)
           \/ out = NoFile
        THEN "unreadable"
        ELSE IF CanonLines(generateCode(c, src, <<>>, <<>>).code) = CanonLines(out)
             THEN "matches" ELSE "differs"

\* The source files of the directives before position limit whose output file differs.
DiffersBefore(directives, limit) ==
    LET idx == SelectSeq([k \in 1..Len(directives) |-> k],
                         LAMBDA k : k < limit /\ DirectiveState(directives[k]) = "differs")
    IN  [j \in 1..Len(idx) |-> directives[idx[j]].sourceFile]

RecEnded == rec.pc \in {"done", "fatal"}

\* C5 as stated: every directive is validated, a failure does not stop the validation
\* of the directives after it, and the run ends with a non-zero exit status exactly
\* when a directive failed, after all were processed and the failing ones listed.
C5_AllValidatedThenExit ==
    RecEnded =>
        /\ rec.seen = 1..Len(rec.directives)
        /\ rec.exit # 0 <=> \E k \in 1..Len(rec.directives) :
                                DirectiveState(rec.directives[k]) # "matches"

\* C5 amended: an output file that differs is a failure of its directive only; a
\* directive whose source cannot be generated from or whose output file cannot be
\* read ends the run at once with a non-zero status, the later directives not
\* validated.  With no such directive every directive is validated, the failing
\* ones are listed in order, and the status is non-zero exactly when one differs.
C5_MismatchContinuesFatalStops ==
    RecEnded =>
        LET n == Len(rec.directives)
            unreadable == { k \in 1..n : DirectiveState(rec.directives[k]) = "unreadable" }
        IN  IF unreadable = {}
            THEN /\ rec.pc = "done"
                 /\ rec.seen = 1..n
                 /\ rec.failed = DiffersBefore(rec.directives, n + 1)
                 /\ rec.exit # 0 <=> rec.failed # <<>>
            ELSE LET first == CHOOSE k \in unreadable : \A j \in unreadable : k <= j
                 IN  /\ rec.pc = "fatal"
                     /\ rec.exit # 0
                     /\ rec.seen = 1..first
                     /\ rec.failed = DiffersBefore(rec.directives, first)

\* A run over three directives whose first output file differs: the two after it
\* are validated and the run ends with status 1 and one listed failure.
C5_Witness ==
    /\ rec.pc = "done"
    /\ Len(rec.directives) = 3
    /\ DirectiveState(rec.directives[1]) = "differs"
    /\ rec.seen = {1, 2, 3}
    /\ rec.exit = 1
    /\ Len(rec.failed) = 1

----------------------------------------------------------------------------
(* Properties of SpecKebab.                                                *)

\* The number of upper-case letters of the name at the positions 2..i.
UppersUpTo(name, i) == Cardinality({ j \in 2..i : IsUpper(name[j]) })

\* kebab is name with one hyphen before each upper-case letter that is not its first
\* character, no other character added, every letter in lower case.
IsKebabOf(kebab, name) ==
    /\ Len(kebab) = Len(name) + UppersUpTo(name, Len(name))
    /\ \A i \in 1..Len(name) :
          /\ kebab[i + UppersUpTo(name, i)] = ToLower(name[i])
          /\ (i > 1 /\ IsUpper(name[i])) => kebab[i + UppersUpTo(name, i) - 1] = "-"

\* The values of the constants of the constants block with the given name.
ConstValues(code, constName) ==
    LET lines == Split(code, <<LF>>)
        head  == <<TAB>> \o constName \o <<SP, "=", SP, QUOTE>>
        own   == SelectSeq(lines, LAMBDA l : HasPrefix(l, head) /\ Last(l) = QUOTE)
    IN  { SubSeq(own[k], Len(head) + 1, Len(own[k]) - 1) : k \in 1..Len(own) }

Capitalized(name) == <<ToUpper(name[1])>> \o Tail(name)

\* C11: kebab naming law: the constant of a non-skipped own field is named flag and
\* the capitalized field name, and its value is the field name with one hyphen before
\* each upper-case letter not at position 0 and every letter in lower case.
C11_KebabNaming ==
    CodeIsCurrent =>
        LET declared == DeclaredFields(TargetFields(node))
        IN  \A i \in 1..Len(declared) :
                ~declared[i].skip =>
                    LET values == ConstValues(expectedCode,
                                              S_flag \o Capitalized(declared[i].name))
                    IN  /\ Cardinality(values) = 1
                        /\ \A v \in values : IsKebabOf(v, declared[i].name)

\* The text has been generated for a field whose name has an upper-case letter at
\* its start and another one after it.
C11_Witness ==
    /\ CodeIsCurrent
    /\ Len(FieldName(node)) = 3
    /\ IsUpper(FieldName(node)[1])
    /\ IsUpper(FieldName(node)[3])
    /\ ConstValues(expectedCode, S_flag \o FieldName(node)) # {}

----------------------------------------------------------------------------
(* Properties of SpecEmbed: the loading function.                          *)

\* The lines of the text between the line that opens the loading function and the end.
LoadLines(code) ==
    LET lines == Split(code, <<LF>>)
        open  == Positions(lines, LAMBDA i : HasPrefix(lines[i], <<"func", SP, "load">>))
    IN  IF open = <<>> THEN <<>> ELSE SubSeq(lines, open[1], Len(lines))

\* The variables bound by a getter call of the loading function.
GetterVars(code) ==
    LET lines == LoadLines(code)
        mark  == <<",", SP, "err", SP, ":=", SP, "flags", ".">>
    IN  { Tail(Split(lines[k], mark)[1]) :
            k \in { j \in 1..Len(lines) : HasPrefix(lines[j], <<TAB>>) /\ Contains(lines[j], mark) } }

\* The values of the key: value elements of the returned literal and its sub-literals.
LiteralValues(code) ==
    LET lines == LoadLines(code)
    IN  { TrimSuffix(Split(lines[k], <<":", SP>>)[2], <<",">>) :
            k \in { j \in 1..Len(lines) :
                      /\ HasPrefix(lines[j], <<TAB, TAB>>)
                      /\ Contains(lines[j], <<":", SP>>)
                      /\ HasSuffix(lines[j], <<",">>) } }

\* C12: every value used in the literal returned by the loading function is bound
\* before it is used, by a getter call of the function or by one of its parameters.
C12_LiteralValuesBound ==
    CodeIsCurrent =>
        \A v \in LiteralValues(expectedCode) :
            \/ v \in GetterVars(expectedCode)
            \/ \E i \in 1..Len(LoadParams(expectedCode)) : LoadParams(expectedCode)[i] = v

----------------------------------------------------------------------------
(* Properties of SpecHost.                                                 *)

\* The registration calls of the text: the constant and the default each one passes.
RegistrationArgs(code) ==
    LET lines == Split(code, <<LF>>)
    IN  { [const   |-> Split(Split(lines[k], <<",", SP>>)[1], <<"(">>)[2],
           default |-> Split(lines[k], <<",", SP>>)[2]] :
            k \in { j \in 1..Len(lines) : HasPrefix(lines[j], <<TAB, "flags", ".">>) } }

\* The embedded structs the source file resolves to, before the defaults are merged.
Resolved == extractEmbeddedStructs(node, cfg.structName, pkgDirs,
                                   CHOOSE o \in OrdersOf(pkgDirs) : TRUE)

HostDefaultRef(fieldName) ==
    <<"d","e","f","a","u","l","t">> \o Capitalized(cfg.structName) \o <<".">> \o fieldName

\* The host's defaults value has a key for the field name.
HostDefaultsHas(fieldName) ==
    \E d \in 2..Len(node.decls) :
        \E e \in 1..Len(node.decls[d].specs[1].values[1].elts) :
            node.decls[d].specs[1].values[1].elts[e].key.name = fieldName

----------------------------------------------------------------------------
(* Properties of SpecWalk.                                                 *)

\* The file is a .go file that is not a generated one.
Scanned(file) ==
    /\ Last(file.path) = ".go"
    /\ file.path[Len(file.path) - 1] \notin {".gen", "_gen"}

\* The line is a go:generate comment that runs the tool by its name.
RunsToolByName(line) ==
    LET words == Fields(line)
    IN  \/ Len(words) >= 3 /\ words[1] = <<"//", GoGenerate>> /\ words[2] = <<ToolName>>
        \/ Len(words) >= 4 /\ words[1] = <<"//">> /\ words[2] = <<GoGenerate>>
              /\ words[3] = <<ToolName>>

\* The line is a go:generate comment that runs the tool as the README shows, by
\* go run ./main.go.
RunsToolByGoRun(line) ==
    LET words == Fields(line)
    IN  /\ Len(words) >= 5
        /\ words[1] = <<"//", GoGenerate>>
        /\ words[2] = <<"go">>
        /\ words[3] = <<"run">>
        /\ words[4] = <<".", "/", "main", ".go">>

RunsTool(line) == RunsToolByName(line) \/ RunsToolByGoRun(line)

\* The flags the words of the line name.
FlagsOf(line) == { SplitN2(Fields(line)[k], "=")[1] : k \in 1..Len(Fields(line)) }

IsMalformed(line) == ~({<<"-file">>, <<"-struct">>, <<"-output">>} \subseteq FlagsOf(line))

\* The places [path, line] of the directives of the scanned files of the tree.
DirectivePlaces(tree) ==
    { pl \in UNION { { [path |-> tree[k].path, line |-> n] : n \in 1..Len(tree[k].lines) } :
                     k \in 1..Len(tree) } :
        \E k \in 1..Len(tree) :
            /\ tree[k].path = pl.path
            /\ Scanned(tree[k])
            /\ RunsTool(tree[k].lines[pl.line]) }

LineAt(tree, pl) ==
    LET k == CHOOSE j \in 1..Len(tree) : tree[j].path = pl.path
    IN  tree[k].lines[pl.line]

\* The places of the directives by name that lack a required flag.
MalformedPlaces(tree) ==
    { pl \in DirectivePlaces(tree) :
        RunsToolByName(LineAt(tree, pl)) /\ IsMalformed(LineAt(tree, pl)) }

\* C14: when a directive of the tree lacks -file, -struct or -output, the walk aborts
\* with an error that names the file and the line of such a directive, and no
\* directive of the tree is validated.
C14_MalformedDirectiveAborts ==
    (rec.pc # "start" /\ MalformedPlaces(probe.files) # {}) =>
        /\ rec.pc = "fatal"
        /\ rec.seen = {}
        /\ rec.directives = <<>>
        /\ [path |-> rec.path, line |-> rec.line] \in MalformedPlaces(probe.files)

\* The walk has aborted at line 3 of win/config.go after it passed the well-formed
\* directive of ok/config.go.
C14_Witness ==
    /\ rec.pc = "fatal"
    /\ rec.path = <<"win", "/", "config", ".go">>
    /\ rec.line = 3
    /\ \E k \in 1..Len(probe.files) : probe.files[k].path = <<"ok", "/", "config", ".go">>
    /\ rec.seen = {}

\* C15: the walk discovers every generation directive of every .go file of the tree
\* that is not a generated file, the form the README shows included, and takes no
\* directive from a generated file.
C15_EveryDirectiveDiscovered ==
    rec.pc \in {"loop", "done"} =>
        { [path |-> rec.directives[k].sourceFile, line |-> rec.directives[k].lineNumber] :
            k \in 1..Len(rec.directives) } = DirectivePlaces(probe.files)

----------------------------------------------------------------------------
(* Properties of SpecParse.                                                *)

\* The value the flags give the kind of flag, <<>> when none does.
ValueOf(flags, kind) ==
    IF \E k \in 1..Len(flags) : FlagKind(flags[k].key) = kind
    THEN flags[CHOOSE k \in 1..Len(flags) : FlagKind(flags[k].key) = kind].value
    ELSE <<>>

\* The same flags in the order -file, -struct, -output, -package, all spelled -k v.
Canonical(flags) ==
    LET kinds == <<<<"-file">>, <<"-struct">>, <<"-output">>, <<"-package">>>>
        at(kind) == CHOOSE k \in 1..Len(flags) : FlagKind(flags[k].key) = kind
        present == SelectSeq(kinds, LAMBDA kind : ValueOf(flags, kind) # <<>>)
    IN  [i \in 1..Len(present) |-> [flags[at(present[i])] EXCEPT !.eq = FALSE]]

\* The path of value, taken relative to the directory of the file sourceFile.
RelativeTo(sourceFile, value) ==
    LET dir == IF Len(sourceFile) > 2 THEN SubSeq(sourceFile, 1, Len(sourceFile) - 3) ELSE <<>>
        up  == HasPrefix(value, <<"..", "/">>)
    IN  IF ~up THEN (IF dir = <<>> THEN value ELSE dir \o <<"/">> \o value)
        ELSE IF dir = <<>> THEN value
        ELSE IF Len(dir) = 1 THEN SubSeq(value, 3, Len(value))
        ELSE SubSeq(dir, 1, Len(dir) - 2) \o <<"/">> \o SubSeq(value, 3, Len(value))

\* C16: parseGenerateDirective yields the same directive for the -k v and the -k=v
\* spelling and for every order of the flags, for all argument values; -file and
\* -output are resolved relative to the directory of the file that holds the
\* directive, -struct and -package are taken verbatim.
C16_SpellingAndOrder ==
    probe.out.err # "none" =>
        /\ probe.out = parseGenerateDirective(probe.sourceFile,
                                               RenderFlags(Canonical(probe.flags)), 1)
        /\ probe.out.err = "" =>
              /\ probe.out.directive.filePath
                    = RelativeTo(probe.sourceFile, ValueOf(probe.flags, <<"-file">>))
              /\ probe.out.directive.outputFile
                    = RelativeTo(probe.sourceFile, ValueOf(probe.flags, <<"-output">>))
              /\ probe.out.directive.structName = ValueOf(probe.flags, <<"-struct">>)
              /\ probe.out.directive.pkgName = ValueOf(probe.flags, <<"-package">>)

----------------------------------------------------------------------------
(* Properties of SpecHost: the import block.                               *)

\* The paths of the import lines of the text, in their order.
ImportPaths(code) ==
    LET lines == Split(code, <<LF>>)
        own   == SelectSeq(lines, LAMBDA l : HasPrefix(l, <<TAB, QUOTE>>) /\ Last(l) = QUOTE)
    IN  [k \in 1..Len(own) |-> SubSeq(own[k], 3, Len(own[k]) - 1)]

\* The name an import of the path binds in the file.
ImportedName(path) ==
    IF path = <<"time">> THEN <<"t","i","m","e">>
    ELSE IF path = <<"github.com/spf13/pflag">> THEN <<"p","f","l","a","g">>
    ELSE Last(Split(path, <<"/">>))

\* The package qualifier of a type or a value pkg.Name, <<>> when it has none.
QualifierOf(text) ==
    LET bare == TrimLeft(text, {"*", "[", "]"})
    IN  IF Contains(bare, <<".">>) THEN Split(bare, <<".">>)[1] ELSE <<>>

\* The package qualifiers of the types of the loader parameters and of the
\* sub-literals of the returned literal.
QualifiersUsed(code) ==
    LET lines == LoadLines(code)
        after == Split(lines[1], <<"*pflag.FlagSet">>)[2]
        list  == Split(Split(after, <<")">>)[1], <<",", SP>>)
        subs  == { j \in 1..Len(lines) :
                     /\ HasPrefix(lines[j], <<TAB, TAB>>)
                     /\ Contains(lines[j], <<":", SP>>)
                     /\ HasSuffix(lines[j], <<"{">>) }
    IN  ({ QualifierOf(Split(list[i], <<SP>>)[2]) : i \in 2..Len(list) }
         \cup { QualifierOf(Split(lines[j], <<":", SP>>)[2]) : j \in subs }) \ {<<>>}

\* C17: the import block holds the pflag library, the time library exactly when a
\* field, own or embedded, has the type time.Duration, and one line per embedded type's
\* package; every package qualifier used in the text is bound by an import of the block.
C17_ImportsBindQualifiers ==
    CodeIsCurrent =>
        LET paths == ImportPaths(expectedCode)
            own   == DeclaredFields(TargetFields(node))
            hasDuration ==
                \/ \E i \in 1..Len(own) : own[i].type = T_duration
                \/ \E e \in 1..Len(Resolved) :
                      \E j \in 1..Len(Resolved[e].Fields) : Resolved[e].Fields[j].Type = T_duration
        IN  /\ paths = (IF hasDuration THEN <<<<"time">>>> ELSE <<>>)
                          \o <<<<"github.com/spf13/pflag">>>>
                          \o [e \in 1..Len(Resolved) |-> Resolved[e].PkgPath]
            /\ \A q \in QualifiersUsed(expectedCode) :
                  \E k \in 1..Len(paths) : ImportedName(paths[k]) = q

----------------------------------------------------------------------------
(* Properties of SpecHost: embeddings that do not resolve.                 *)

\* The embeddings whose resolution fails: the type is not found in the package, the
\* package path resolves to no directory, the alias has no import.
FailsToResolve(member) ==
    member \in { Embedding(N_opts, N_Thing), Embedding(N_gone, N_Thing),
                 Embedding(N_lost, N_Thing) }

\* C18: a soft resolution failure of an embedding never fails generateCode: the text
\* names nothing of that embedding, and the own fields and the resolved embeddings are
\* rendered as they are for the source without the failed embedding.
C18_FailedEmbeddingLeavesNoTrace ==
    /\ result # "fatal"
    /\ CodeIsCurrent =>
          LET kept == SelectSeq(TargetFields(node), LAMBDA m : ~FailsToResolve(m))
              g    == generateCode(cfg, WithTargetFields(node, kept), pkgDirs,
                                   CHOOSE o \in OrdersOf(pkgDirs) : TRUE)
          IN  /\ g.err = ""
              /\ expectedCode = g.code
              /\ ~Contains(expectedCode, N_Thing)

\* The text has been generated for a struct with an own field, a resolved embedding
\* and an embedding of a type its package does not declare.
C18_Witness ==
    /\ CodeIsCurrent
    /\ TargetFields(node)
          = <<F_logFile, Embedding(N_opts, N_ServerOptions), Embedding(N_opts, N_Thing)>>
    /\ HasConstant(expectedCode, N_logFile)
    /\ \E r \in RegistrationArgs(expectedCode) : r.default = HostDefaultRef(N_Port)

----------------------------------------------------------------------------
(* Properties of SpecFrame.                                                *)

\* C19: the validator never modifies the output file: on every path through
\* validateGen (match, mismatch, generation failure, unreadable file) the contents of
\* the output file are after the call what they were before it.
C19_ValidateLeavesOutput == [][Validate => outputFile' = outputFile]_vars

\* validate has reported a mismatch and the output file still holds the stale text.
C19_Witness ==
    /\ result = "out of date"
    /\ outputFile # NoFile
    /\ SourceIsSound
    /\ outputFile # expectedCode

----------------------------------------------------------------------------
(* Properties of SpecHost: the constants block.                            *)

\* The constants of the constants block, in their order: name and value.
Constants(code) ==
    LET lines == Split(code, <<LF>>)
        own   == SelectSeq(lines, LAMBDA l : /\ HasPrefix(l, <<TAB>> \o S_flag)
                                             /\ Contains(l, <<SP, "=", SP, QUOTE>>)
                                             /\ Last(l) = QUOTE)
    IN  [k \in 1..Len(own) |->
            [name  |-> Tail(Split(own[k], <<SP, "=", SP, QUOTE>>)[1]),
             value |-> LET v == Split(own[k], <<SP, "=", SP, QUOTE>>)[2]
                       IN  SubSeq(v, 1, Len(v) - 1)]]

\* C20: for a struct whose fields have pairwise distinct names, the constants of the
\* constants block, of own and of embedded fields together, have pairwise distinct
\* names and pairwise distinct values.
C20_ConstantsDistinct ==
    CodeIsCurrent =>
        LET consts == Constants(expectedCode)
        IN  \A i, j \in 1..Len(consts) :
                i # j => consts[i].name # consts[j].name /\ consts[i].value # consts[j].value

----------------------------------------------------------------------------
(* Properties of SpecEmbed: the variables of the loading function.         *)

\* The variables the getter statements of the loading function bind, in their order.
GetterVarList(code) ==
    LET lines == LoadLines(code)
        mark  == <<",", SP, "err", SP, ":=", SP, "flags", ".">>
        own   == SelectSeq(lines, LAMBDA l : HasPrefix(l, <<TAB>>) /\ Contains(l, mark))
    IN  [k \in 1..Len(own) |-> Tail(Split(own[k], mark)[1])]

\* C21: in the loading function the names bound by the getter calls are pairwise
\* distinct and distinct from the names of the parameters and from flags and err, so
\* every getter statement binds a new variable.
C21_GetterVarsDistinct ==
    CodeIsCurrent =>
        LET bound  == GetterVarList(expectedCode)
            params == LoadParams(expectedCode)
        IN  /\ \A i, j \in 1..Len(bound) : i # j => bound[i] # bound[j]
            /\ \A i \in 1..Len(bound) :
                  /\ bound[i] \notin { params[k] : k \in 1..Len(params) }
                  /\ bound[i] \notin { <<"f","l","a","g","s">>, <<"e","r","r">> }

----------------------------------------------------------------------------
(* Properties of SpecExtract: one struct declaration.                      *)

\* The name extractStructFields takes from each declaration of the field list that has
\* names, in declaration order.
EntryNames(list) ==
    LET named == SelectSeq(list, LAMBDA f : Len(f.names) # 0)
    IN  [k \in 1..Len(named) |-> named[k].names[1]]

\* C22: the field list extractStructFields returns comes from a single struct
\* declaration: when the file has more than one struct type with the target name, the
\* fields of only one of them are returned and the lists are never concatenated.
C22_SingleDeclaration ==
    (probe.fn = "extractStructFields" /\ TargetStructs(node) # {}) =>
        \E i \in TargetStructs(node) :
            [k \in 1..Len(probe.out.fields) |-> probe.out.fields[k].Name]
                = EntryNames(node.decls[i].type.fields)

----------------------------------------------------------------------------
(* Properties of Spec: the keys of the defaults value.                     *)

\* The key of the defaults value names no field of the struct, or a skipped one.
NamesNoFlagField(key) ==
    LET declared == DeclaredFields(TargetFields(node))
    IN  \A i \in 1..Len(declared) : declared[i].name = key => declared[i].skip

\* C23: a key of the defaults literal that names no field of the struct, or that names
\* a skipped field, produces no constant, no registration call and no default
\* reference anywhere in the generated text.
C23_DefaultsKeysLimited ==
    CodeIsCurrent =>
        \A key \in {N_logFile, N_version, N_ghost} :
            (HostDefaultsHas(key) /\ NamesNoFlagField(key)) =>
                /\ ~HasConstant(expectedCode, key)
                /\ Registrations(expectedCode, key) = 0
                /\ ~Contains(expectedCode, HostDefaultRef(key))

\* The text has been generated for a struct with the fields logFile and version, the
\* second skipped, and a defaults value with the keys logFile, version and ghost: the
\* reference of logFile is in the text.
C23_Witness ==
    /\ CodeIsCurrent
    /\ HostDefaultsHas(N_version)
    /\ HostDefaultsHas(N_ghost)
    /\ \E i \in 1..Len(TargetFields(node)) : TargetFields(node)[i] = F_version
    /\ Contains(expectedCode, HostDefaultRef(N_logFile))

====
